---- MODULE Spec2Model ----
(***************************************************************************)
(* The iteration state machine of the task runner (Runner.Run,             *)
(* Runner.runIteration and its outcome handlers), the backoff policy, and  *)
(* candidate selection against the ignore list.                            *)
(*                                                                         *)
(* External commands (candidate source, agent, verify, reset, success,     *)
(* git status) are the environment: each call draws its result from the    *)
(* results the command can give.  Durations are in minutes.  A candidate   *)
(* is represented by its Key, the only field the runner reads.             *)
(***************************************************************************)
EXTENDS Integers, Sequences, FiniteSets, TLC

\* ------------------------------------------------------------------ bounds
NumKeys == 2
MaxLen == 2
MaxIter == 6
MaxLevel == 25

\* --------------------------------------------------------------- constants
baseBackoff == 5
maxBackoff == 60
rateLimitBackoff == 60
rateLimitPhrase == "You've hit your limit"

OutcomeFixed == "FIXED"
OutcomeFixedReverted == "FIXED_BUT_REVERTED"
OutcomeNotFixed == "NOT_FIXED"
OutcomeBestEffort == "BEST_EFFORT"
OutcomeBuildFailed == "BUILD_FAILED"

HashFilterNone == "none"
HashFilterEvens == "evens"
HashFilterOdds == "odds"

\* Candidate keys, and the lowest bit of the MD5 digest of each.
KeyNames == <<"a", "e", "b", "o", "c", "p", "n", "s">>
Keys == {KeyNames[i] : i \in 1..NumKeys}
md5Bit0 == [k \in {"a", "e", "b", "o", "c", "p", "n", "s"} |->
              IF k \in {"e", "o", "p", "s"} THEN 0 ELSE 1]

NoCandidate == "<nil>"

SeqsUpTo(S, n) == UNION {[1..k -> S] : k \in 0..n}
Lists == SeqsUpTo(Keys, MaxLen)

\* Results of the external collaborators.
CmdResults == {"ok", "fail", "err"}
StatusResults == {"dirty", "clean", "err"}
SourceResults ==
  {[st |-> "err", out |-> <<>>], [st |-> "malformed", out |-> <<>>]}
    \cup {[st |-> "ok", out |-> l] : l \in Lists}
ClaudeErrs == {"nil", "timeout", "error"}
IOResults == {"ok", "err"}

VARIABLES
  task, config, opts,
  pc, iteration, backoffLevel, stopRequested, ignoredList,
  candidate, claudeOutput, done, err, runErr, sleepFor,
  trace, logged,
  streak, unfixed,
  args, result

vars == <<task, config, opts, pc, iteration, backoffLevel, stopRequested,
          ignoredList, candidate, claudeOutput, done, err, runErr, sleepFor,
          trace, logged,
          streak, unfixed, args, result>>

cfgVars == <<task, config, opts>>
pureVars == <<args, result>>

\* ------------------------------------------------------------ pure functions
RECURSIVE backoffLoop(_, _, _)
backoffLoop(backoff, i, level) ==
  IF i < level
    THEN IF backoff * 2 >= maxBackoff
           THEN maxBackoff
           ELSE backoffLoop(backoff * 2, i + 1, level)
    ELSE backoff

\* The doubling loop started one step late.
calculateBackoffLate(level) == backoffLoop(baseBackoff, 1, level)

calculateBackoff(level) == backoffLoop(baseBackoff, 0, level)

Contains(entries, key) == key \in entries

\* A filter that is never applied.
FilterByHashOff(candidates, filter) == candidates

\* A filter whose Odds branch tests the parity the wrong way round.
RECURSIVE FilterByHashSameParity(_, _)
FilterByHashSameParity(candidates, filter) ==
  IF filter = HashFilterNone THEN candidates
  ELSE IF candidates = <<>> THEN <<>>
  ELSE LET c == Head(candidates)
           isEven == md5Bit0[c] = 0
           rest == FilterByHashSameParity(Tail(candidates), filter)
       IN IF (filter = HashFilterEvens /\ isEven) \/ (filter = HashFilterOdds /\ isEven)
            THEN <<c>> \o rest
            ELSE rest

RECURSIVE FilterByHash(_, _)
FilterByHash(candidates, filter) ==
  IF filter = HashFilterNone THEN candidates
  ELSE IF candidates = <<>> THEN <<>>
  ELSE LET c == Head(candidates)
           isEven == md5Bit0[c] = 0
           rest == FilterByHash(Tail(candidates), filter)
       IN IF (filter = HashFilterEvens /\ isEven) \/ (filter = HashFilterOdds /\ ~isEven)
            THEN <<c>> \o rest
            ELSE rest

\* Selection that does not consult the ignore list.
SelectCandidateFirst(candidates, ignored) ==
  IF candidates = <<>> THEN NoCandidate ELSE Head(candidates)

\* Selection that keeps looking and returns the last candidate not ignored.
RECURSIVE SelectCandidateLast(_, _)
SelectCandidateLast(candidates, ignored) ==
  IF candidates = <<>> THEN NoCandidate
  ELSE LET later == SelectCandidateLast(Tail(candidates), ignored) IN
       IF later # NoCandidate THEN later
       ELSE IF ~Contains(ignored, Head(candidates)) THEN Head(candidates)
       ELSE NoCandidate

RECURSIVE SelectCandidate(_, _)
SelectCandidate(candidates, ignored) ==
  IF candidates = <<>> THEN NoCandidate
  ELSE IF ~Contains(ignored, Head(candidates)) THEN Head(candidates)
  ELSE SelectCandidate(Tail(candidates), ignored)

containsKey(candidates, key) == \E i \in 1..Len(candidates) : candidates[i] = key

\* A presence check that filters the re-run output by the Evens partition
\* whatever filter the selection used.
candidateFixedEvens(newOutput, filter, key) ==
  ~containsKey(FilterByHash(newOutput, HashFilterEvens), key)

\* The presence check after the agent: the re-run output filtered as the
\* selection was, then searched for the selected key.
candidateFixed(newOutput, filter, key) ==
  ~containsKey(FilterByHash(newOutput, filter), key)

\* An Add that starts a fresh set for the new key.
AddReplacing(entries, key, io) ==
  IF entries \cap {key} # {} THEN [entries |-> entries, err |-> FALSE]
  ELSE IF io = "err" THEN [entries |-> entries, err |-> TRUE]
  ELSE [entries |-> {key}, err |-> FALSE]

\* IgnoredList.Add: no-op when present; the file write comes first and its
\* failure leaves the set as it was.
Add(entries, key, io) ==
  IF entries \cap {key} # {} THEN [entries |-> entries, err |-> FALSE]
  ELSE IF io = "err" THEN [entries |-> entries, err |-> TRUE]
  ELSE [entries |-> entries \cup {key}, err |-> FALSE]

\* ------------------------------------------------------- command wrappers
\* An executed external command and what it answered.
Cmd(c, r) == [cmd |-> c, res |-> r]

\* What the runner sees of a command whose error it folds into failure.
Seen(res) == IF res = "ok" THEN "ok" ELSE "fail"

runVerify(res) ==
  IF config.VerifyCommand = "" THEN [ok |-> TRUE, cmds |-> <<>>]
  ELSE [ok |-> res = "ok", cmds |-> <<Cmd("verify", Seen(res))>>]

runReset(res) ==
  IF config.ResetCommand = "" THEN [ok |-> TRUE, cmds |-> <<>>]
  ELSE [ok |-> res = "ok", cmds |-> <<Cmd("reset", Seen(res))>>]

\* A reset that is not followed by a verification of the build.
runResetOnly(resetRes, verifyRes) == runReset(resetRes)

runResetAndVerify(resetRes, verifyRes) ==
  LET r == runReset(resetRes) IN
  IF ~r.ok THEN [ok |-> FALSE, cmds |-> r.cmds]
  ELSE IF config.VerifyCommand = "" THEN [ok |-> TRUE, cmds |-> r.cmds]
  ELSE [ok |-> verifyRes = "ok", cmds |-> r.cmds \o <<Cmd("verify", Seen(verifyRes))>>]

runStartupReset(status, resetRes, verifyRes) ==
  IF config.ResetCommand = ""
    THEN [ok |-> status = "clean", cmds |-> <<Cmd("status", status)>>]
  ELSE IF resetRes # "ok" THEN [ok |-> FALSE, cmds |-> <<Cmd("reset", "fail")>>]
  ELSE IF config.VerifyCommand # ""
    THEN [ok |-> verifyRes = "ok",
          cmds |-> <<Cmd("reset", "ok"), Cmd("verify", Seen(verifyRes))>>]
  ELSE [ok |-> TRUE, cmds |-> <<Cmd("reset", "ok")>>]

\* --------------------------------------------------------- outcome handlers
\* What a handler did: the commands it ran, the outcomes it logged, the ignore
\* set it leaves and the error it returns ("none", "generic" or "fatal").
HStop(cmds, e) ==
  [cmds |-> cmds, logged |-> <<>>, entries |-> ignoredList, err |-> e]

\* Logging an outcome and ignoring the candidate whatever the outcome.
HLogIgnoring(cmds, outcome) ==
  [cmds |-> cmds, logged |-> <<outcome>>, entries |-> ignoredList \cup {candidate},
   err |-> "none"]

HLog(cmds, outcome) ==
  [cmds |-> cmds, logged |-> <<outcome>>, entries |-> ignoredList, err |-> "none"]

\* Logging an outcome without adding the candidate to the ignore list.
HLogForget(cmds, outcome, cand, io) ==
  [cmds |-> cmds, logged |-> <<outcome>>, entries |-> ignoredList, err |-> "none"]

HLogAdd(cmds, outcome, cand, io) ==
  LET a == Add(ignoredList, cand, io) IN
  [cmds |-> cmds, logged |-> <<outcome>>, entries |-> a.entries,
   err |-> IF a.err THEN "generic" ELSE "none"]

HandlerInputs ==
  [verify : CmdResults, status : StatusResults, success : CmdResults,
   reset : CmdResults, reverify : CmdResults, add : IOResults]

\* With the build already verified handleSuccess asks for the status and the
\* success command only.
SuccessInputs(buildVerified) ==
  IF buildVerified
    THEN [verify : {"ok"}, status : StatusResults, success : CmdResults,
          reset : {"ok"}, reverify : {"ok"}, add : {"ok"}]
    ELSE HandlerInputs

\* A success handler that takes a failed success command for an ordinary error.
handleSuccessLenient(cand, buildVerified, in) ==
  LET v1 == IF buildVerified THEN [ok |-> TRUE, cmds |-> <<>>] ELSE runVerify(in.verify) IN
  IF ~v1.ok
    THEN LET r == runReset(in.reset) IN
         IF ~r.ok THEN HStop(v1.cmds \o r.cmds, "fatal")
         ELSE LET v2 == runVerify(in.reverify) IN
              IF ~v2.ok THEN HStop(v1.cmds \o r.cmds \o v2.cmds, "fatal")
              ELSE HLogAdd(v1.cmds \o r.cmds \o v2.cmds, OutcomeFixedReverted, cand, in.add)
  ELSE IF in.status = "err" THEN HStop(v1.cmds \o <<Cmd("status", in.status)>>, "generic")
  ELSE IF in.status = "dirty"
    THEN IF in.success # "ok" THEN HStop(v1.cmds \o <<Cmd("status", in.status), Cmd("success", in.success)>>, "generic")
         ELSE HLog(v1.cmds \o <<Cmd("status", in.status), Cmd("success", in.success)>>, OutcomeFixed)
  ELSE HLog(v1.cmds \o <<Cmd("status", in.status)>>, OutcomeFixed)

\* A success handler that records nothing when there is nothing to commit.
handleSuccessQuiet(cand, buildVerified, in) ==
  LET v1 == IF buildVerified THEN [ok |-> TRUE, cmds |-> <<>>] ELSE runVerify(in.verify) IN
  IF ~v1.ok
    THEN LET r == runReset(in.reset) IN
         IF ~r.ok THEN HStop(v1.cmds \o r.cmds, "fatal")
         ELSE LET v2 == runVerify(in.reverify) IN
              IF ~v2.ok THEN HStop(v1.cmds \o r.cmds \o v2.cmds, "fatal")
              ELSE HLogAdd(v1.cmds \o r.cmds \o v2.cmds, OutcomeFixedReverted, cand, in.add)
  ELSE IF in.status = "err" THEN HStop(v1.cmds \o <<Cmd("status", in.status)>>, "generic")
  ELSE IF in.status = "dirty"
    THEN IF in.success = "err" THEN HStop(v1.cmds \o <<Cmd("status", in.status), Cmd("success", in.success)>>, "generic")
         ELSE IF in.success = "fail" THEN HStop(v1.cmds \o <<Cmd("status", in.status), Cmd("success", in.success)>>, "fatal")
         ELSE HLog(v1.cmds \o <<Cmd("status", in.status), Cmd("success", in.success)>>, OutcomeFixed)
  ELSE HStop(v1.cmds \o <<Cmd("status", in.status)>>, "none")

handleSuccess(cand, buildVerified, in) ==
  LET v1 == IF buildVerified THEN [ok |-> TRUE, cmds |-> <<>>] ELSE runVerify(in.verify) IN
  IF ~v1.ok
    THEN LET r == runReset(in.reset) IN
         IF ~r.ok THEN HStop(v1.cmds \o r.cmds, "fatal")
         ELSE LET v2 == runVerify(in.reverify) IN
              IF ~v2.ok THEN HStop(v1.cmds \o r.cmds \o v2.cmds, "fatal")
              ELSE HLogAdd(v1.cmds \o r.cmds \o v2.cmds, OutcomeFixedReverted, cand, in.add)
  ELSE IF in.status = "err" THEN HStop(v1.cmds \o <<Cmd("status", in.status)>>, "generic")
  ELSE IF in.status = "dirty"
    THEN IF in.success = "err" THEN HStop(v1.cmds \o <<Cmd("status", in.status), Cmd("success", in.success)>>, "generic")
         ELSE IF in.success = "fail" THEN HStop(v1.cmds \o <<Cmd("status", in.status), Cmd("success", in.success)>>, "fatal")
         ELSE HLog(v1.cmds \o <<Cmd("status", in.status), Cmd("success", in.success)>>, OutcomeFixed)
  ELSE HLog(v1.cmds \o <<Cmd("status", in.status)>>, OutcomeFixed)

\* Without best effort the failure handlers ask for the reset, the build
\* after it and the ignore list write only.
FailureInputs ==
  IF task.AcceptBestEffort
    THEN HandlerInputs
    ELSE [verify : {"ok"}, status : {"clean"}, success : {"ok"},
          reset : CmdResults, reverify : CmdResults, add : IOResults]

\* A failure handler that resets whatever the best-effort setting.
handleFailureStandard(cand, in) ==
  LET rv == runResetAndVerify(in.reset, in.reverify) IN
  IF ~rv.ok THEN HStop(rv.cmds, "fatal")
  ELSE HLogAdd(rv.cmds, OutcomeNotFixed, cand, in.add)

handleFailure(cand, in) ==
  IF task.AcceptBestEffort
    THEN LET v == runVerify(in.verify) IN
         IF v.ok
           THEN IF in.status = "err" THEN HStop(v.cmds \o <<Cmd("status", in.status)>>, "generic")
                ELSE IF in.status = "dirty"
                  THEN IF in.success = "err"
                         THEN HStop(v.cmds \o <<Cmd("status", in.status), Cmd("success", in.success)>>, "generic")
                       ELSE IF in.success = "fail"
                         THEN HStop(v.cmds \o <<Cmd("status", in.status), Cmd("success", in.success)>>, "fatal")
                       ELSE HLogAdd(v.cmds \o <<Cmd("status", in.status), Cmd("success", in.success)>>, OutcomeBestEffort, cand, in.add)
                ELSE HLogAdd(v.cmds \o <<Cmd("status", in.status)>>, OutcomeNotFixed, cand, in.add)
           ELSE LET rv == runResetAndVerify(in.reset, in.reverify) IN
                IF ~rv.ok THEN HStop(v.cmds \o rv.cmds, "fatal")
                ELSE HLogAdd(v.cmds \o rv.cmds, OutcomeBuildFailed, cand, in.add)
    ELSE LET rv == runResetAndVerify(in.reset, in.reverify) IN
         IF ~rv.ok THEN HStop(rv.cmds, "fatal")
         ELSE HLogAdd(rv.cmds, OutcomeNotFixed, cand, in.add)

\* A timeout handler that does not tell a failed build from an unchanged tree.
handleTimeoutFlat(cand, in) ==
  IF task.AcceptBestEffort
    THEN LET v == runVerify(in.verify) IN
         IF v.ok
           THEN IF in.status = "err" THEN HStop(v.cmds \o <<Cmd("status", in.status)>>, "generic")
                ELSE IF in.status = "dirty"
                  THEN IF in.success = "err"
                         THEN HStop(v.cmds \o <<Cmd("status", in.status), Cmd("success", in.success)>>, "generic")
                       ELSE IF in.success = "fail"
                         THEN HStop(v.cmds \o <<Cmd("status", in.status), Cmd("success", in.success)>>, "fatal")
                       ELSE HLogAdd(v.cmds \o <<Cmd("status", in.status), Cmd("success", in.success)>>, OutcomeBestEffort, cand, in.add)
                ELSE HLogAdd(v.cmds \o <<Cmd("status", in.status)>>, OutcomeNotFixed, cand, in.add)
           ELSE LET rv == runResetAndVerify(in.reset, in.reverify) IN
                IF ~rv.ok THEN HStop(v.cmds \o rv.cmds, "fatal")
                ELSE HLogAdd(v.cmds \o rv.cmds, OutcomeNotFixed, cand, in.add)
    ELSE LET rv == runResetAndVerify(in.reset, in.reverify) IN
         IF ~rv.ok THEN HStop(rv.cmds, "fatal")
         ELSE HLogAdd(rv.cmds, OutcomeNotFixed, cand, in.add)

\* A timeout handler that never commits partial progress.
handleTimeoutNoCommit(cand, in) ==
  LET rv == runResetAndVerify(in.reset, in.reverify) IN
  IF ~rv.ok THEN HStop(rv.cmds, "fatal")
  ELSE HLogAdd(rv.cmds, OutcomeNotFixed, cand, in.add)

\* A timeout handler that cleans up but records nothing.
handleTimeoutSilent(cand, in) ==
  LET rv == runResetAndVerify(in.reset, in.reverify) IN
  IF ~rv.ok THEN HStop(rv.cmds, "fatal") ELSE HStop(rv.cmds, "none")

handleTimeout(cand, in) ==
  IF task.AcceptBestEffort
    THEN LET v == runVerify(in.verify) IN
         IF v.ok
           THEN IF in.status = "err" THEN HStop(v.cmds \o <<Cmd("status", in.status)>>, "generic")
                ELSE IF in.status = "dirty"
                  THEN IF in.success = "err"
                         THEN HStop(v.cmds \o <<Cmd("status", in.status), Cmd("success", in.success)>>, "generic")
                       ELSE IF in.success = "fail"
                         THEN HStop(v.cmds \o <<Cmd("status", in.status), Cmd("success", in.success)>>, "fatal")
                       ELSE HLogAdd(v.cmds \o <<Cmd("status", in.status), Cmd("success", in.success)>>, OutcomeBestEffort, cand, in.add)
                ELSE HLogAdd(v.cmds \o <<Cmd("status", in.status)>>, OutcomeNotFixed, cand, in.add)
           ELSE LET rv == runResetAndVerify(in.reset, in.reverify) IN
                IF ~rv.ok THEN HStop(v.cmds \o rv.cmds, "fatal")
                ELSE HLogAdd(v.cmds \o rv.cmds, OutcomeBuildFailed, cand, in.add)
    ELSE LET rv == runResetAndVerify(in.reset, in.reverify) IN
         IF ~rv.ok THEN HStop(rv.cmds, "fatal")
         ELSE HLogAdd(rv.cmds, OutcomeNotFixed, cand, in.add)

\* -------------------------------------------------------------- the runner
Tasks ==
  [AcceptBestEffort : BOOLEAN, Template : {"", "prompt.md"}, Timeout : {0, 1}]
Configs ==
  [VerifyCommand : {"", "verify"}, ResetCommand : {"", "reset"}]
Options ==
  [Limit : {0, 2}, TimeLimit : {0, 1}, DryRun : BOOLEAN,
   HashFilter : {HashFilterNone, HashFilterEvens, HashFilterOdds}]

\* The ignore list as loaded from ignored.log at construction.
InitIgnored == {{}, {KeyNames[1]}}

\* The template file, the per-candidate timeout and the time limit each only
\* add behaviours to a run; they are switched on together or not at all.
Optional(t, o) ==
  /\ (t.Template # "") = (t.Timeout > 0)
  /\ (t.Template # "") = (o.TimeLimit > 0)

Init ==
  /\ task \in Tasks
  /\ config \in Configs
  /\ opts \in Options
  /\ Optional(task, opts)
  /\ pc = "start"
  /\ iteration = 0
  /\ backoffLevel = 0
  /\ stopRequested = FALSE
  /\ ignoredList \in InitIgnored
  /\ candidate = NoCandidate
  /\ claudeOutput = ""
  /\ done = FALSE
  /\ err = "none"
  /\ runErr = "none"
  /\ sleepFor = 0
  /\ trace = <<>>
  /\ logged = <<>>
  /\ streak = <<>>
  /\ unfixed = {}
  /\ args = <<>>
  /\ result = <<>>

\* runIteration returns (d, e) to Run.
Return(d, e) ==
  /\ pc' = "iterationReturned"
  /\ done' = d
  /\ err' = e

\* Run, up to the loop: CheckClaudeCommand and runStartupReset.
Startup ==
  /\ pc = "start"
  /\ \E check \in IOResults, status \in StatusResults,
        resetRes \in CmdResults, verifyRes \in CmdResults :
       IF ~opts.DryRun /\ check = "err"
         THEN /\ pc' = "returned"
              /\ runErr' = "startup"
              /\ trace' = <<>>
         ELSE LET r == runStartupReset(status, resetRes, verifyRes) IN
              /\ trace' = r.cmds
              /\ pc' = IF r.ok THEN "loop" ELSE "returned"
              /\ runErr' = IF r.ok THEN "none" ELSE "startup"
  /\ UNCHANGED <<cfgVars, iteration, backoffLevel, stopRequested, ignoredList,
                 candidate, done, err, sleepFor, logged, streak, unfixed, pureVars, claudeOutput>>

\* The head of Run's loop: stop flag, iteration limit, time limit, iteration++.
\* A loop head that lets one iteration more than the limit start.
LoopHeadLenient ==
  /\ pc = "loop"
  /\ \E timeUp \in (IF opts.TimeLimit > 0 THEN BOOLEAN ELSE {FALSE}) :
       IF \/ stopRequested
          \/ (opts.Limit > 0 /\ iteration > opts.Limit)
          \/ timeUp
         THEN /\ pc' = "returned"
              /\ runErr' = "nil"
              /\ UNCHANGED <<iteration, trace, logged, candidate, done, err>>
         ELSE /\ iteration < MaxIter
              /\ iteration' = iteration + 1
              /\ pc' = "select"
              /\ trace' = <<>>
              /\ UNCHANGED <<runErr, logged, candidate, done, err>>
  /\ UNCHANGED <<cfgVars, backoffLevel, stopRequested, ignoredList, sleepFor,
                 streak, unfixed, pureVars, claudeOutput>>

LoopHead ==
  /\ pc = "loop"
  /\ \E timeUp \in (IF opts.TimeLimit > 0 THEN BOOLEAN ELSE {FALSE}) :
       IF \/ stopRequested
          \/ (opts.Limit > 0 /\ iteration >= opts.Limit)
          \/ timeUp
         THEN /\ pc' = "returned"
              /\ runErr' = "nil"
              /\ UNCHANGED <<iteration, trace, logged, candidate, done, err>>
         ELSE /\ iteration < MaxIter
              /\ iteration' = iteration + 1
              /\ pc' = "select"
              /\ trace' = <<>>
              /\ UNCHANGED <<runErr, logged, candidate, done, err>>
  /\ UNCHANGED <<cfgVars, backoffLevel, stopRequested, ignoredList, sleepFor,
                 streak, unfixed, pureVars, claudeOutput>>

\* getPrompt: the template file is read when the task names one; the read is
\* kept in the trace.
getPrompt(c, tmpl) ==
  IF c = NoCandidate \/ task.Template = ""
    THEN [ok |-> TRUE, cmds |-> <<>>]
    ELSE [ok |-> tmpl = "ok", cmds |-> <<Cmd("template", tmpl)>>]

\* runIteration that treats an unreadable template as an ordinary error.
RunIterationSelectRetry ==
  /\ pc = "select"
  /\ \E src \in SourceResults, tmpl \in IOResults :
       IF src.st # "ok"
         THEN /\ trace' = trace \o <<Cmd("source", src.st)>>
              /\ Return(FALSE, "generic")
              /\ UNCHANGED candidate
         ELSE LET candidates == FilterByHash(src.out, opts.HashFilter)
                  c == SelectCandidate(candidates, ignoredList)
              IN /\ candidate' = c
                 /\ trace' = trace \o <<Cmd("source", src.st)>>
                              \o getPrompt(c, tmpl).cmds
                 /\ IF c = NoCandidate THEN Return(TRUE, "none")
                    ELSE IF ~getPrompt(c, tmpl).ok THEN Return(FALSE, "generic")
                    ELSE IF opts.DryRun THEN Return(TRUE, "none")
                    ELSE pc' = "claude" /\ UNCHANGED <<done, err>>
  /\ UNCHANGED <<cfgVars, iteration, backoffLevel, stopRequested, ignoredList,
                 runErr, sleepFor, logged, streak, unfixed, pureVars, claudeOutput>>

\* runIteration up to the agent call: candidate source, parse, hash filter,
\* selection, prompt, dry run.
RunIterationSelect ==
  /\ pc = "select"
  /\ \E src \in SourceResults, tmpl \in IOResults :
       IF src.st # "ok"
         THEN /\ trace' = trace \o <<Cmd("source", src.st)>>
              /\ Return(FALSE, "generic")
              /\ UNCHANGED candidate
         ELSE LET candidates == FilterByHash(src.out, opts.HashFilter)
                  c == SelectCandidate(candidates, ignoredList)
              IN /\ candidate' = c
                 /\ trace' = trace \o <<Cmd("source", src.st)>>
                              \o getPrompt(c, tmpl).cmds
                 /\ IF c = NoCandidate THEN Return(TRUE, "none")
                    ELSE IF ~getPrompt(c, tmpl).ok THEN Return(FALSE, "fatal")
                    ELSE IF opts.DryRun THEN Return(TRUE, "none")
                    ELSE pc' = "claude" /\ UNCHANGED <<done, err>>
  /\ UNCHANGED <<cfgVars, iteration, backoffLevel, stopRequested, ignoredList,
                 runErr, sleepFor, logged, streak, unfixed, pureVars, claudeOutput>>

\* runIteration that looks at the timeout before the rate-limit phrase.
RunIterationClaudeTimeoutFirst ==
  /\ pc = "claude"
  /\ \E out \in {"", rateLimitPhrase}, e \in ClaudeErrs,
        resetRes \in CmdResults, verifyRes \in CmdResults :
       /\ e = "timeout" => task.Timeout > 0
       /\ claudeOutput' = out
       /\ IF e = "timeout"
            THEN /\ pc' = "handleTimeout"
                 /\ trace' = trace \o <<Cmd("claude", e)>>
                 /\ UNCHANGED <<done, err>>
          ELSE IF out = rateLimitPhrase
            THEN /\ Return(FALSE, "ratelimit")
                 /\ trace' = trace \o <<Cmd("claude", e)>>
          ELSE IF e = "error"
            THEN LET rv == runResetAndVerify(resetRes, verifyRes) IN
                 /\ trace' = trace \o <<Cmd("claude", e)>> \o rv.cmds
                 /\ Return(FALSE, IF rv.ok THEN "generic" ELSE "fatal")
          ELSE /\ pc' = "verify"
               /\ trace' = trace \o <<Cmd("claude", e)>>
               /\ UNCHANGED <<done, err>>
  /\ UNCHANGED <<cfgVars, iteration, backoffLevel, stopRequested, ignoredList,
                 candidate, runErr, sleepFor, logged, streak, unfixed, pureVars>>

\* RunClaudeCommand returns; rate limit, timeout and agent error are told apart.
RunIterationClaude ==
  /\ pc = "claude"
  /\ \E out \in {"", rateLimitPhrase}, e \in ClaudeErrs,
        resetRes \in CmdResults, verifyRes \in CmdResults :
       /\ e = "timeout" => task.Timeout > 0
       /\ claudeOutput' = out
       /\ IF out = rateLimitPhrase
            THEN /\ Return(FALSE, "ratelimit")
                 /\ trace' = trace \o <<Cmd("claude", e)>>
          ELSE IF e = "timeout"
            THEN /\ pc' = "handleTimeout"
                 /\ trace' = trace \o <<Cmd("claude", e)>>
                 /\ UNCHANGED <<done, err>>
          ELSE IF e = "error"
            THEN LET rv == runResetAndVerify(resetRes, verifyRes) IN
                 /\ trace' = trace \o <<Cmd("claude", e)>> \o rv.cmds
                 /\ Return(FALSE, IF rv.ok THEN "generic" ELSE "fatal")
          ELSE /\ pc' = "verify"
               /\ trace' = trace \o <<Cmd("claude", e)>>
               /\ UNCHANGED <<done, err>>
  /\ UNCHANGED <<cfgVars, iteration, backoffLevel, stopRequested, ignoredList,
                 candidate, runErr, sleepFor, logged, streak, unfixed, pureVars>>

\* The candidate source re-run with the build not verified before it.
RunIterationVerifyLate ==
  /\ pc = "verify"
  /\ pc' = "recheck"
  /\ UNCHANGED <<cfgVars, iteration, backoffLevel, stopRequested, ignoredList,
                 candidate, done, err, runErr, sleepFor, logged, streak, unfixed,
                 pureVars, claudeOutput, trace>>

\* The build verified and the candidate source re-run whatever the result.
RunIterationVerifyIgnored ==
  /\ pc = "verify"
  /\ \E res \in CmdResults :
       /\ trace' = trace \o runVerify(res).cmds
       /\ pc' = "recheck"
  /\ UNCHANGED <<cfgVars, iteration, backoffLevel, stopRequested, ignoredList,
                 candidate, done, err, runErr, sleepFor, logged, streak, unfixed,
                 pureVars, claudeOutput>>

\* The build is verified first.
RunIterationVerify ==
  /\ pc = "verify"
  /\ \E res \in CmdResults :
       LET v == runVerify(res) IN
       /\ trace' = trace \o v.cmds
       /\ pc' = IF v.ok THEN "recheck" ELSE "handleFailure"
  /\ UNCHANGED <<cfgVars, iteration, backoffLevel, stopRequested, ignoredList,
                 candidate, done, err, runErr, sleepFor, logged, streak, unfixed,
                 pureVars, claudeOutput>>

\* Then the candidate source is run again and the selected key looked up.
RunIterationRecheck ==
  /\ pc = "recheck"
  /\ \E src \in SourceResults :
       /\ trace' = trace \o <<Cmd("source", src.st)>>
       /\ IF src.st # "ok"
            THEN Return(FALSE, "generic")
            ELSE /\ pc' = IF candidateFixed(src.out, opts.HashFilter, candidate)
                             THEN "handleSuccess" ELSE "handleFailure"
                 /\ UNCHANGED <<done, err>>
  /\ UNCHANGED <<cfgVars, iteration, backoffLevel, stopRequested, ignoredList,
                 candidate, runErr, sleepFor, logged, streak, unfixed, pureVars, claudeOutput>>

\* A handler ran and runIteration returns what it returned.
Handled(h) ==
  /\ trace' = trace \o h.cmds
  /\ logged' = logged \o h.logged
  /\ ignoredList' = h.entries
  /\ unfixed' = IF h.err = "none" /\ h.logged # <<>> /\ h.logged[1] # OutcomeFixed
                  THEN unfixed \cup {candidate} ELSE unfixed
  /\ Return(FALSE, h.err)
  /\ UNCHANGED <<cfgVars, iteration, backoffLevel, stopRequested, candidate,
                 runErr, sleepFor, streak, pureVars, claudeOutput>>

\* The success handler called as if the build had not been verified yet.
HandleSuccessUnverified ==
  /\ pc = "handleSuccess"
  /\ \E in \in SuccessInputs(FALSE) : Handled(handleSuccess(candidate, FALSE, in))

HandleSuccess ==
  /\ pc = "handleSuccess"
  /\ \E in \in SuccessInputs(TRUE) : Handled(handleSuccess(candidate, TRUE, in))

HandleFailure ==
  /\ pc = "handleFailure"
  /\ \E in \in FailureInputs : Handled(handleFailure(candidate, in))

HandleTimeout ==
  /\ pc = "handleTimeout"
  /\ \E in \in FailureInputs : Handled(handleTimeout(candidate, in))

\* Run with every error, fatal ones too, slept on and retried.
RunResultRetry ==
  /\ pc = "iterationReturned"
  /\ IF err = "ratelimit"
       THEN /\ pc' = "sleep"
            /\ sleepFor' = rateLimitBackoff
            /\ streak' = <<>>
            /\ UNCHANGED <<runErr, backoffLevel>>
     ELSE IF err # "none"
       THEN /\ pc' = "sleep"
            /\ sleepFor' = calculateBackoff(backoffLevel)
            /\ streak' = Append(streak, calculateBackoff(backoffLevel))
            /\ UNCHANGED <<runErr, backoffLevel>>
     ELSE IF done
       THEN /\ pc' = "returned"
            /\ runErr' = "nil"
            /\ UNCHANGED <<sleepFor, backoffLevel, streak>>
     ELSE /\ pc' = "loop"
          /\ backoffLevel' = 0
          /\ streak' = <<>>
          /\ UNCHANGED <<sleepFor, runErr>>
  /\ candidate' = NoCandidate
  /\ claudeOutput' = ""
  /\ trace' = <<>>
  /\ logged' = <<>>
  /\ UNCHANGED <<cfgVars, iteration, stopRequested, ignoredList, done, err,
                 unfixed, pureVars>>

\* Run, after runIteration returned: its locals are gone, the error is
\* classified.
RunResult ==
  /\ pc = "iterationReturned"
  /\ IF err = "fatal"
       THEN /\ pc' = "returned"
            /\ runErr' = "fatal"
            /\ UNCHANGED <<sleepFor, backoffLevel, streak>>
     ELSE IF err = "ratelimit"
       THEN /\ pc' = "sleep"
            /\ sleepFor' = rateLimitBackoff
            /\ streak' = <<>>
            /\ UNCHANGED <<runErr, backoffLevel>>
     ELSE IF err = "generic"
       THEN /\ pc' = "sleep"
            /\ sleepFor' = calculateBackoff(backoffLevel)
            /\ streak' = Append(streak, calculateBackoff(backoffLevel))
            /\ UNCHANGED <<runErr, backoffLevel>>
     ELSE IF done
       THEN /\ pc' = "returned"
            /\ runErr' = "nil"
            /\ UNCHANGED <<sleepFor, backoffLevel, streak>>
     ELSE /\ pc' = "loop"
          /\ backoffLevel' = 0
          /\ streak' = <<>>
          /\ UNCHANGED <<sleepFor, runErr>>
  /\ candidate' = NoCandidate
  /\ claudeOutput' = ""
  /\ trace' = <<>>
  /\ logged' = <<>>
  /\ UNCHANGED <<cfgVars, iteration, stopRequested, ignoredList, done, err,
                 unfixed, pureVars>>

\* The sleep ends with the level incremented after a rate limit too.
WakeCounting ==
  /\ pc = "sleep"
  /\ backoffLevel' = backoffLevel + 1
  /\ sleepFor' = 0
  /\ pc' = "loop"
  /\ err' = "none"
  /\ UNCHANGED <<cfgVars, iteration, stopRequested, ignoredList, candidate, done,
                 runErr, trace, logged, streak, unfixed, pureVars, claudeOutput>>

\* The sleep ends with the level left as it was.
WakeFlat ==
  /\ pc = "sleep"
  /\ backoffLevel' = IF err = "ratelimit" THEN 0 ELSE backoffLevel
  /\ sleepFor' = 0
  /\ pc' = "loop"
  /\ err' = "none"
  /\ UNCHANGED <<cfgVars, iteration, stopRequested, ignoredList, candidate, done,
                 runErr, trace, logged, streak, unfixed, pureVars, claudeOutput>>

\* The sleep ends: the level is reset or incremented, and the loop continues.
Wake ==
  /\ pc = "sleep"
  /\ backoffLevel' = IF err = "ratelimit" THEN 0 ELSE backoffLevel + 1
  /\ sleepFor' = 0
  /\ pc' = "loop"
  /\ err' = "none"
  /\ UNCHANGED <<cfgVars, iteration, stopRequested, ignoredList, candidate, done,
                 runErr, trace, logged, streak, unfixed, pureVars, claudeOutput>>

\* The signal goroutine receives one signal.
handlerWaiting == pc \notin {"start", "returned", "exited"} /\ ~stopRequested

\* A graceful stop that ends the run on the spot.
SigQuitAbort ==
  /\ handlerWaiting
  /\ stopRequested' = TRUE
  /\ pc' = "returned"
  /\ runErr' = "nil"
  /\ UNCHANGED <<cfgVars, iteration, backoffLevel, ignoredList, candidate,
                 done, err, sleepFor, trace, logged, streak, unfixed,
                 pureVars, claudeOutput>>

SigQuit ==
  /\ handlerWaiting
  /\ stopRequested' = TRUE
  /\ UNCHANGED <<cfgVars, pc, iteration, backoffLevel, ignoredList, candidate,
                 done, err, runErr, sleepFor, trace, logged, streak, unfixed,
                 pureVars, claudeOutput>>

Next ==
  \/ Startup
  \/ LoopHead
  \/ RunIterationSelect
  \/ RunIterationClaude
  \/ RunIterationVerify
  \/ RunIterationRecheck
  \/ HandleSuccess
  \/ HandleFailure
  \/ HandleTimeout
  \/ RunResult
  \/ Wake
  \/ SigQuit

Spec == Init /\ [][Next]_vars

\* ------------------------------------------- the pure functions on their own
\* The runner's variables while only a function is being applied.
RunnerIdle ==
  /\ task = [AcceptBestEffort |-> FALSE, Template |-> "", Timeout |-> 0]
  /\ config = [VerifyCommand |-> "", ResetCommand |-> ""]
  /\ opts = [Limit |-> 0, TimeLimit |-> 0, DryRun |-> FALSE, HashFilter |-> HashFilterNone]
  /\ iteration = 0
  /\ backoffLevel = 0
  /\ stopRequested = FALSE
  /\ ignoredList = {}
  /\ candidate = NoCandidate
  /\ claudeOutput = ""
  /\ done = FALSE
  /\ err = "none"
  /\ runErr = "none"
  /\ sleepFor = 0
  /\ trace = <<>>
  /\ logged = <<>>
  /\ streak = <<>>
  /\ unfixed = {}

runnerVars == <<task, config, opts, iteration, backoffLevel, stopRequested,
                ignoredList, candidate, claudeOutput, done, err, runErr,
                sleepFor, trace, logged, streak, unfixed>>

\* calculateBackoff applied to a pair of levels.
InitBackoff ==
  /\ RunnerIdle
  /\ pc = "call"
  /\ args \in (0..MaxLevel) \X (0..MaxLevel)
  /\ result = <<>>

CallBackoff ==
  /\ pc = "call"
  /\ result' = <<calculateBackoff(args[1]), calculateBackoff(args[2])>>
  /\ pc' = "ret"
  /\ UNCHANGED <<runnerVars, args>>

SpecBackoff == InitBackoff /\ [][CallBackoff]_vars

\* SelectCandidate applied to a candidate list and an ignore set.
SelectLists == SeqsUpTo(Keys, MaxLen + 1)

InitSelect ==
  /\ RunnerIdle
  /\ pc = "call"
  /\ args \in SelectLists \X (SUBSET Keys)
  /\ result = <<>>

CallSelect ==
  /\ pc = "call"
  /\ result' = <<SelectCandidate(args[1], args[2])>>
  /\ pc' = "ret"
  /\ UNCHANGED <<runnerVars, args>>

SpecSelect == InitSelect /\ [][CallSelect]_vars

\* FilterByHash applied to a candidate list under each of the three filters.
AllKeys == {KeyNames[i] : i \in 1..Len(KeyNames)}
FilterLists == SeqsUpTo(AllKeys, MaxLen + 1)

InitFilter ==
  /\ RunnerIdle
  /\ pc = "call"
  /\ args \in {<<l>> : l \in FilterLists}
  /\ result = <<>>

CallFilter ==
  /\ pc = "call"
  /\ result' = [f \in {HashFilterNone, HashFilterEvens, HashFilterOdds} |->
                  FilterByHash(args[1], f)]
  /\ pc' = "ret"
  /\ UNCHANGED <<runnerVars, args>>

SpecFilter == InitFilter /\ [][CallFilter]_vars

\* Two runner instances, one per hash partition, each in its own process with
\* its own in-memory ignore list loaded from the same file, selecting from the
\* same candidate-source output.  An instance that selected a key either
\* ignores it afterwards (outcome not Fixed) or does not (error, retry).
Partitions == {HashFilterEvens, HashFilterOdds}

InitPair ==
  /\ RunnerIdle
  /\ pc = "pair"
  /\ args \in FilterLists \X (SUBSET Keys)
  /\ result = [f \in Partitions |-> [ignored |-> args[2], selected |-> {}]]

PairSelect ==
  /\ pc = "pair"
  /\ \E f \in Partitions, ignore \in BOOLEAN :
       LET candidates == FilterByHash(args[1], f)
           c == SelectCandidate(candidates, result[f].ignored)
       IN /\ c # NoCandidate
          /\ result' = [result EXCEPT
                          ![f].selected = @ \cup {c},
                          ![f].ignored = IF ignore THEN @ \cup {c} ELSE @]
  /\ UNCHANGED <<runnerVars, args, pc>>

SpecPair == InitPair /\ [][PairSelect]_vars

\* The selection and the presence check of one iteration on their own: the
\* candidate source answers args[1] first and args[2] after the agent.
InitRecheck ==
  /\ RunnerIdle
  /\ pc = "call"
  /\ args \in Lists \X Lists \X {HashFilterNone, HashFilterEvens, HashFilterOdds}
              \X (SUBSET Keys)
  /\ result = <<>>

RecheckSelect ==
  /\ pc = "call"
  /\ result' = <<SelectCandidate(FilterByHash(args[1], args[3]), args[4])>>
  /\ pc' = "selected"
  /\ UNCHANGED <<runnerVars, args>>

RecheckPresence ==
  /\ pc = "selected"
  /\ result[1] # NoCandidate
  /\ result' = <<result[1], candidateFixed(args[2], args[3], result[1])>>
  /\ pc' = "ret"
  /\ UNCHANGED <<runnerVars, args>>

SpecRecheck == InitRecheck /\ [][RecheckSelect \/ RecheckPresence]_vars

\* ------------------------------------------- the ignore list and its file
\* One task directory over several runs.  A key is its sequence of characters;
\* ignored.log is the sequence of the records appended to it.  The state is
\* result = [entries, file, mark, calls, key, err] and args = [succeeded]:
\* the in-memory set, the file, the file's length when the list was loaded,
\* the Add calls of this run, the key and the return value of the last Add,
\* and the keys for which some Add returned nil.
LF == "\n"
SP == " "

FileKeys == {<<>>, <<"a">>, <<SP, "a">>, <<"a", SP>>, <<"a", LF, "a">>}

MaxRecords == MaxLen + 1

\* fmt.Fprintln(file, key)
Fprintln(key) == key \o <<LF>>

RECURSIVE FileBytes(_)
FileBytes(file) ==
  IF file = <<>> THEN <<>> ELSE Head(file) \o FileBytes(Tail(file))

\* bufio.Scanner with ScanLines: the lines between newlines, and what follows
\* the last newline when it is not empty.
RECURSIVE ScanLines(_, _)
ScanLines(bytes, line) ==
  IF bytes = <<>> THEN (IF line = <<>> THEN <<>> ELSE <<line>>)
  ELSE IF Head(bytes) = LF THEN <<line>> \o ScanLines(Tail(bytes), <<>>)
  ELSE ScanLines(Tail(bytes), Append(line, Head(bytes)))

RECURSIVE TrimLeft(_)
TrimLeft(line) ==
  IF line # <<>> /\ Head(line) \in {SP, LF} THEN TrimLeft(Tail(line)) ELSE line

RECURSIVE TrimRight(_)
TrimRight(line) ==
  IF line # <<>> /\ line[Len(line)] \in {SP, LF}
    THEN TrimRight(SubSeq(line, 1, Len(line) - 1)) ELSE line

\* strings.TrimSpace
TrimSpace(line) == TrimRight(TrimLeft(line))

\* NewIgnoredList: every line trimmed, empty lines skipped.
NewIgnoredList(file) ==
  LET lines == ScanLines(FileBytes(file), <<>>) IN
  {TrimSpace(lines[i]) : i \in 1..Len(lines)} \ {<<>>}

InitList ==
  /\ RunnerIdle
  /\ pc = "idle"
  /\ args = [succeeded |-> {}]
  /\ result = [entries |-> NewIgnoredList(<<>>), file |-> <<>>, mark |-> 0,
               calls |-> 0, key |-> <<>>, err |-> "nil"]

\* Add without the membership test.
AddOpenAlways ==
  /\ pc = "idle"
  /\ result.calls < MaxIter
  /\ \E key \in FileKeys, io \in IOResults :
       IF io = "err"
         THEN /\ result' = [result EXCEPT !.calls = @ + 1, !.key = key, !.err = "error"]
              /\ pc' = "idle"
              /\ UNCHANGED args
       ELSE /\ Len(result.file) < MaxRecords
            /\ result' = [result EXCEPT !.calls = @ + 1, !.key = key, !.err = "none"]
            /\ pc' = "write"
            /\ UNCHANGED args
  /\ UNCHANGED runnerVars

\* Add up to the write, with the in-memory set updated as soon as the file is
\* open.
AddOpenEager ==
  /\ pc = "idle"
  /\ result.calls < MaxIter
  /\ \E key \in FileKeys, io \in IOResults :
       IF Contains(result.entries, key)
         THEN /\ result' = [result EXCEPT !.calls = @ + 1, !.key = key, !.err = "nil"]
              /\ args' = [succeeded |-> args.succeeded \cup {key}]
              /\ pc' = "idle"
       ELSE IF io = "err"
         THEN /\ result' = [result EXCEPT !.calls = @ + 1, !.key = key, !.err = "error"]
              /\ pc' = "idle"
              /\ UNCHANGED args
       ELSE /\ Len(result.file) < MaxRecords
            /\ result' = [result EXCEPT !.calls = @ + 1, !.key = key, !.err = "none",
                                         !.entries = @ \cup {key}]
            /\ pc' = "write"
            /\ UNCHANGED args
  /\ UNCHANGED runnerVars

\* Add is called: the membership test, then os.OpenFile.
AddOpen ==
  /\ pc = "idle"
  /\ result.calls < MaxIter
  /\ \E key \in FileKeys, io \in IOResults :
       IF Contains(result.entries, key)
         THEN /\ result' = [result EXCEPT !.calls = @ + 1, !.key = key, !.err = "nil"]
              /\ args' = [succeeded |-> args.succeeded \cup {key}]
              /\ pc' = "idle"
       ELSE IF io = "err"
         THEN /\ result' = [result EXCEPT !.calls = @ + 1, !.key = key, !.err = "error"]
              /\ pc' = "idle"
              /\ UNCHANGED args
       ELSE /\ Len(result.file) < MaxRecords
            /\ result' = [result EXCEPT !.calls = @ + 1, !.key = key, !.err = "none"]
            /\ pc' = "write"
            /\ UNCHANGED args
  /\ UNCHANGED runnerVars

\* fmt.Fprintln on the open file: the record is appended or nothing is.
AddWrite ==
  /\ pc = "write"
  /\ \E io \in IOResults :
       IF io = "err"
         THEN /\ result' = [result EXCEPT !.err = "error"]
              /\ pc' = "idle"
         ELSE /\ result' = [result EXCEPT !.file = Append(@, Fprintln(result.key))]
              /\ pc' = "update"
  /\ UNCHANGED <<runnerVars, args>>

\* entries[key] = true; return nil
AddUpdate ==
  /\ pc = "update"
  /\ result' = [result EXCEPT !.entries = @ \cup {result.key}, !.err = "nil"]
  /\ args' = [succeeded |-> args.succeeded \cup {result.key}]
  /\ pc' = "idle"
  /\ UNCHANGED runnerVars

\* The process ends, at any point, and the next run loads the list from the
\* file.
Reload ==
  /\ pc \in {"idle", "write", "update"}
  /\ result' = [entries |-> NewIgnoredList(result.file), file |-> result.file,
                mark |-> Len(result.file), calls |-> 0, key |-> <<>>, err |-> "nil"]
  /\ pc' = "idle"
  /\ UNCHANGED <<runnerVars, args>>

SpecList == InitList /\ [][AddOpen \/ AddWrite \/ AddUpdate \/ Reload]_vars

\* ------------------------------------------------- RunClaudeCommand
\* One agent invocation: the agent process, the stream reader goroutine, the
\* goroutine copying stderr into stderrBuf, cmd.Wait, the timeout select and
\* the signal goroutine of Run. The state of the invocation is the record
\* result; args holds the timeout and what kind of process the agent is.
MaxLines == MaxLen + 1
MaxSignals == MaxLen

\* Lines of the stream protocol. A line that is not JSON has type "".
TextDelta(t) == [type |-> "content_block_delta", text |-> t]
MessageStop == [type |-> "message_stop", text |-> ""]
RawLine(t) == [type |-> "", text |-> t]
Events == {TextDelta("Hello "), TextDelta("World"), TextDelta(""),
           MessageStop, RawLine("x")}

\* What the agent process writes while the other goroutines run.
AgentLines == {TextDelta("partial"), MessageStop}

\* strings.Builder.String(): the writes, concatenated.
RECURSIVE String(_)
String(b) == IF b = <<>> THEN "" ELSE Head(b) \o String(Tail(b))

\* The body of the scanner loop that hands a line that is not JSON to the
\* callback as if it were text.
scanLineEcho(r, line) ==
  IF line.type = ""
    THEN [r EXCEPT !.log = Append(@, line.text \o "\n"),
                   !.streamed = Append(@, line.text \o "\n"),
                   !.messageHasContent = TRUE,
                   !.fullOutput = Append(@, line.text \o "\n")]
  ELSE IF line.type = "content_block_delta" /\ line.text # ""
    THEN [r EXCEPT !.messageHasContent = TRUE,
                   !.streamed = Append(@, line.text),
                   !.log = Append(@, line.text),
                   !.fullOutput = Append(@, line.text)]
  ELSE IF line.type = "message_stop"
    THEN IF r.messageHasContent
           THEN [r EXCEPT !.streamed = Append(@, "\n"),
                          !.log = Append(@, "\n"),
                          !.fullOutput = Append(@, "\n"),
                          !.messageHasContent = FALSE]
           ELSE [r EXCEPT !.messageHasContent = FALSE]
  ELSE r

\* The body of the scanner loop that never clears the has-content flag.
scanLineSticky(r, line) ==
  IF line.type = ""
    THEN [r EXCEPT !.log = Append(@, line.text \o "\n"),
                   !.fullOutput = Append(@, line.text \o "\n")]
  ELSE IF line.type = "content_block_delta" /\ line.text # ""
    THEN [r EXCEPT !.messageHasContent = TRUE,
                   !.streamed = Append(@, line.text),
                   !.log = Append(@, line.text),
                   !.fullOutput = Append(@, line.text)]
  ELSE IF line.type = "message_stop" /\ r.messageHasContent
    THEN [r EXCEPT !.streamed = Append(@, "\n"),
                   !.log = Append(@, "\n"),
                   !.fullOutput = Append(@, "\n")]
  ELSE r

\* The body of the scanner loop for one line of stdout.
scanLine(r, line) ==
  IF line.type = ""
    THEN [r EXCEPT !.log = Append(@, line.text \o "\n"),
                   !.fullOutput = Append(@, line.text \o "\n")]
  ELSE IF line.type = "content_block_delta" /\ line.text # ""
    THEN [r EXCEPT !.messageHasContent = TRUE,
                   !.streamed = Append(@, line.text),
                   !.log = Append(@, line.text),
                   !.fullOutput = Append(@, line.text)]
  ELSE IF line.type = "message_stop"
    THEN IF r.messageHasContent
           THEN [r EXCEPT !.streamed = Append(@, "\n"),
                          !.log = Append(@, "\n"),
                          !.fullOutput = Append(@, "\n"),
                          !.messageHasContent = FALSE]
           ELSE [r EXCEPT !.messageHasContent = FALSE]
  ELSE r

\* The invocation right after cmd.Start, with lines already in the pipe.
Started(lines, running) ==
  [proc |-> IF running THEN "running" ELSE "exited",
   exit |-> IF running THEN "" ELSE "ok",
   pipe |-> lines, written |-> lines, stdoutClosed |-> ~running,
   errPipe |-> <<>>, stderrBuf |-> <<>>, errWritten |-> <<>>,
   closed |-> FALSE, waited |-> FALSE, termSent |-> FALSE,
   runningProcess |-> TRUE,
   rpc |-> "scan", scanErr |-> FALSE,
   fullOutput |-> <<>>, messageHasContent |-> FALSE, streamed |-> <<>>,
   log |-> <<>>,
   sigChan |-> "", handler |-> "waiting", interrupted |-> FALSE, signals |-> 0]

calleeVars == <<task, config, opts, iteration, backoffLevel, ignoredList,
                candidate, done, runErr, sleepFor, trace, logged, streak,
                unfixed>>

InitClaude ==
  /\ RunnerIdle
  /\ pc = "select"
  /\ args \in [timeout : {0, 1}, ignoresTerm : BOOLEAN,
               orphan : {"none", "stdout", "both"}]
  /\ result = Started(<<>>, TRUE)

\* The write end of the stdout (stderr) pipe is held by the agent while it
\* runs and by a descendant that outlives it.
StdoutHeld ==
  \/ result.proc = "running" /\ ~result.stdoutClosed
  \/ args.orphan \in {"stdout", "both"}
StderrHeld == result.proc = "running" \/ args.orphan = "both"

\* The agent writes a line to stdout.
AgentWrite ==
  /\ result.proc = "running"
  /\ ~result.stdoutClosed
  /\ Len(result.written) < MaxLines
  /\ \E line \in AgentLines :
       result' = [result EXCEPT !.pipe = Append(@, line),
                                !.written = Append(@, line)]
  /\ UNCHANGED <<runnerVars, pc, args>>

\* The agent closes its stdout and goes on running.
AgentCloseStdout ==
  /\ result.proc = "running"
  /\ ~result.stdoutClosed
  /\ result' = [result EXCEPT !.stdoutClosed = TRUE]
  /\ UNCHANGED <<runnerVars, pc, args>>

\* The agent writes to stderr.
AgentWriteStderr ==
  /\ result.proc = "running"
  /\ result.errWritten = <<>>
  /\ result' = [result EXCEPT !.errPipe = Append(@, rateLimitPhrase),
                              !.errWritten = Append(@, rateLimitPhrase)]
  /\ UNCHANGED <<runnerVars, pc, args>>

\* The agent exits by itself.
AgentExit ==
  /\ result.proc = "running"
  /\ \E status \in {"ok", "fail"} :
       result' = [result EXCEPT !.proc = "exited", !.exit = status]
  /\ UNCHANGED <<runnerVars, pc, args>>

\* SIGTERM ends an agent that does not catch it.
AgentTerminated ==
  /\ result.proc = "running"
  /\ result.termSent
  /\ ~args.ignoresTerm
  /\ result' = [result EXCEPT !.proc = "exited", !.exit = "killed"]
  /\ UNCHANGED <<runnerVars, pc, args>>

\* os/exec copies the stderr pipe into stderrBuf.
StderrCopy ==
  /\ pc # "exited"
  /\ result.errPipe # <<>>
  /\ result' = [result EXCEPT !.stderrBuf = @ \o result.errPipe,
                              !.errPipe = <<>>]
  /\ UNCHANGED <<runnerVars, pc, args>>

\* cmd.Wait: the process has exited, the stderr copy is complete, the read end
\* of the stdout pipe is closed.
CmdWait ==
  /\ pc # "exited"
  /\ ~result.waited
  /\ result.proc = "exited"
  /\ result.errPipe = <<>>
  /\ ~StderrHeld
  /\ result' = [result EXCEPT !.waited = TRUE, !.closed = TRUE]
  /\ UNCHANGED <<runnerVars, pc, args>>

\* scanner.Scan and the loop body.
ReaderScan ==
  /\ pc # "exited"
  /\ result.rpc = "scan"
  /\ IF result.closed
       THEN result' = [result EXCEPT !.rpc = "eof", !.scanErr = TRUE]
     ELSE IF result.pipe # <<>>
       THEN result' = [scanLine(result, Head(result.pipe)) EXCEPT !.pipe = Tail(@)]
     ELSE /\ ~StdoutHeld
          /\ result' = [result EXCEPT !.rpc = "eof"]
  /\ UNCHANGED <<runnerVars, pc, args>>

\* The stream reader after the loop: final newline, stderr, resultCh.
ReaderFinish ==
  /\ pc # "exited"
  /\ result.rpc = "eof"
  /\ result' = [result EXCEPT !.streamed = Append(@, "\n"),
                              !.log = Append(@, "\n"),
                              !.fullOutput = @ \o result.stderrBuf,
                              !.rpc = "done"]
  /\ UNCHANGED <<runnerVars, pc, args>>

\* KillRunningProcess: SIGTERM to the process group, if a process is recorded.
KillRunningProcess(r) == [r EXCEPT !.termSent = @ \/ r.runningProcess]

\* The timeout branch of the select.
SelectTimeout ==
  /\ pc = "select"
  /\ args.timeout > 0
  /\ result' = [KillRunningProcess(result) EXCEPT !.runningProcess = FALSE]
  /\ pc' = "awaitTimeout"
  /\ UNCHANGED <<runnerVars, args>>

\* cmd.Wait has returned (through the done channel when there is a timeout).
SelectDone ==
  /\ pc = "select"
  /\ result.waited
  /\ result' = [result EXCEPT !.runningProcess = FALSE]
  /\ pc' = "awaitResult"
  /\ UNCHANGED <<runnerVars, args>>

\* The timeout branch that does not wait for the stream reader.
ReturnTimeoutEarly ==
  /\ pc = "awaitTimeout"
  /\ claudeOutput' = String(result.fullOutput)
  /\ err' = "timeout"
  /\ pc' = "returned"
  /\ UNCHANGED <<calleeVars, stopRequested, args, result>>

\* The timeout branch: the result of the stream reader, a timeout error.
ReturnTimeout ==
  /\ pc = "awaitTimeout"
  /\ result.rpc = "done"
  /\ claudeOutput' = String(result.fullOutput)
  /\ err' = "timeout"
  /\ pc' = "returned"
  /\ UNCHANGED <<calleeVars, stopRequested, args, result>>

\* The normal return: the result of the stream reader, its error or Wait's.
ReturnResult ==
  /\ pc = "awaitResult"
  /\ result.rpc = "done"
  /\ claudeOutput' = String(result.fullOutput)
  /\ err' = IF result.scanErr \/ result.exit # "ok" THEN "error" ELSE "nil"
  /\ pc' = "returned"
  /\ UNCHANGED <<calleeVars, stopRequested, args, result>>

\* A signal reaches the program: signal.Notify puts it on sigChan unless the
\* channel is full.
SigDeliver ==
  /\ pc # "exited"
  /\ result.signals < MaxSignals
  /\ \E sig \in {"SIGQUIT", "SIGINT"} :
       result' = [result EXCEPT
                    !.sigChan = IF @ = "" THEN sig ELSE @,
                    !.interrupted = @ \/ sig = "SIGINT",
                    !.signals = @ + 1]
  /\ UNCHANGED <<runnerVars, pc, args>>

\* The signal goroutine of Run: one receive, then the switch.
HandlerReceive ==
  /\ pc # "exited"
  /\ result.handler = "waiting"
  /\ result.sigChan # ""
  /\ IF result.sigChan = "SIGQUIT"
       THEN /\ stopRequested' = TRUE
            /\ result' = [result EXCEPT !.sigChan = "", !.handler = "returned"]
            /\ UNCHANGED pc
       ELSE /\ result' = [KillRunningProcess(result) EXCEPT
                            !.sigChan = "", !.handler = "returned"]
            /\ pc' = "exited"
            /\ UNCHANGED stopRequested
  /\ UNCHANGED <<calleeVars, claudeOutput, err, args>>

NextClaude ==
  \/ AgentWrite \/ AgentCloseStdout \/ AgentWriteStderr \/ AgentExit
  \/ AgentTerminated
  \/ StderrCopy \/ CmdWait \/ ReaderScan \/ ReaderFinish
  \/ SelectTimeout \/ SelectDone \/ ReturnTimeout \/ ReturnResult
  \/ SigDeliver \/ HandlerReceive

SpecClaude == InitClaude /\ [][NextClaude]_vars

\* The goroutines of the program, the timer and the kernel keep running; the
\* agent and the sender of signals owe nothing.
SpecClaudeFair ==
  /\ SpecClaude
  /\ WF_vars(AgentTerminated) /\ WF_vars(StderrCopy) /\ WF_vars(CmdWait)
  /\ WF_vars(ReaderScan) /\ WF_vars(ReaderFinish)
  /\ WF_vars(SelectTimeout) /\ WF_vars(SelectDone)
  /\ WF_vars(ReturnTimeout) /\ WF_vars(ReturnResult)
  /\ WF_vars(HandlerReceive)

\* The stream reader alone, on a stream that is complete.
InitStream ==
  /\ RunnerIdle
  /\ pc = "select"
  /\ args = [timeout |-> 0, ignoresTerm |-> FALSE, orphan |-> "none"]
  /\ \E lines \in SeqsUpTo(Events, MaxLines) : result = Started(lines, FALSE)

SpecStream == InitStream /\ [][ReaderScan \/ ReaderFinish]_vars

\* ------------------------------------------------- ParseCandidates
\* The text of one element of the candidate array, as a sequence of tokens:
\* insignificant white space, the members of an object in the order they are
\* written, or a string.
MaxTokens == MaxLen + 1
Space == [kind |-> "space", name |-> "", value |-> SP]
Member(n, v) == [kind |-> "member", name |-> n, value |-> v]
Str(s) == [kind |-> "string", name |-> "", value |-> s]
MemberTokens == {Member("\"file\"", "\"a\""), Member("\"line\"", "1")}
StrTokens == {Str("a")}
IsSpace(tok) == tok.kind = "space"

ObjectTexts ==
  {t \in SeqsUpTo({Space} \cup MemberTokens, MaxTokens) :
     \A i, j \in 1..Len(t) : (i # j /\ t[i] = t[j]) => IsSpace(t[i])}
StringTexts ==
  {t \in SeqsUpTo({Space} \cup StrTokens, MaxTokens) :
     Cardinality({i \in 1..Len(t) : ~IsSpace(t[i])}) = 1}
ItemTexts == ObjectTexts \cup StringTexts

\* The tokens of a text that are not white space, in the order of the text.
RECURSIVE Significant(_)
Significant(t) ==
  IF t = <<>> THEN <<>>
  ELSE IF IsSpace(Head(t)) THEN Significant(Tail(t))
  ELSE <<Head(t)>> \o Significant(Tail(t))

RECURSIVE WriteMembers(_)
WriteMembers(ms) ==
  IF ms = <<>> THEN ""
  ELSE Head(ms).name \o ":" \o Head(ms).value
         \o (IF Len(ms) > 1 THEN "," ELSE "") \o WriteMembers(Tail(ms))

\* json.Compact on the text of an object: the white space goes, the members
\* stay as written.
Compact(t) == "{" \o WriteMembers(Significant(t)) \o "}"

\* json.Unmarshal(item, &str) succeeds.
IsString(t) == \E i \in 1..Len(t) : t[i].kind = "string"

\* The key of one element.
candidateKey(t) == IF IsString(t) THEN Significant(t)[1].value ELSE Compact(t)

ParseCandidates(items) ==
  [i \in 1..Len(items) |-> [Key |-> candidateKey(items[i]), Data |-> items[i]]]

\* Two candidate-source outputs of one element each.
InitParse ==
  /\ RunnerIdle
  /\ pc = "idle"
  /\ args \in [a : {<<t>> : t \in ItemTexts}, b : {<<t>> : t \in ItemTexts}]
  /\ result = [a |-> <<>>, b |-> <<>>]

CallParse ==
  /\ pc = "idle"
  /\ result' = [a |-> ParseCandidates(args.a), b |-> ParseCandidates(args.b)]
  /\ pc' = "parsed"
  /\ UNCHANGED <<runnerVars, args>>

SpecParse == InitParse /\ [][CallParse]_vars

\* ------------------------------------------------- the failure handlers
\* handleFailure and handleTimeout called in the same state with the same
\* results of the external commands.
InitHandlers ==
  /\ task \in [AcceptBestEffort : BOOLEAN, Template : {""}, Timeout : {1}]
  /\ config \in Configs
  /\ opts = [Limit |-> 0, TimeLimit |-> 0, DryRun |-> FALSE, HashFilter |-> HashFilterNone]
  /\ iteration = 1
  /\ backoffLevel = 0
  /\ stopRequested = FALSE
  /\ ignoredList \in InitIgnored
  /\ candidate \in {KeyNames[1], KeyNames[2]}
  /\ claudeOutput = ""
  /\ done = FALSE
  /\ err = "none"
  /\ runErr = "none"
  /\ sleepFor = 0
  /\ trace = <<>>
  /\ logged = <<>>
  /\ streak = <<>>
  /\ unfixed = {}
  /\ pc = "call"
  /\ args \in HandlerInputs
  /\ result = <<>>

CallHandlers ==
  /\ pc = "call"
  /\ result' = [failure |-> handleFailure(candidate, args),
                timeout |-> handleTimeout(candidate, args)]
  /\ pc' = "ret"
  /\ UNCHANGED <<runnerVars, args>>

SpecHandlers == InitHandlers /\ [][CallHandlers]_vars

\* ------------------------------------------------- a run without errors
\* The runner against a candidate source that keeps printing the same list,
\* less the keys that were fixed: args.list is the list, args.fixed the keys
\* that are gone from it. No command fails to launch and no iteration returns
\* an error; builds may fail, the agent may time out, limits may apply.
SourceList == SelectSeq(args.list, LAMBDA k : k \notin args.fixed)

InitTerm ==
  /\ task \in [AcceptBestEffort : BOOLEAN, Template : {""}, Timeout : {0, 1}]
  /\ config \in Configs
  /\ opts \in [Limit : {0, 2}, TimeLimit : {0, 1}, DryRun : BOOLEAN,
               HashFilter : {HashFilterNone, HashFilterEvens}]
  /\ pc = "start"
  /\ iteration = 0
  /\ backoffLevel = 0
  /\ stopRequested = FALSE
  /\ ignoredList \in InitIgnored
  /\ candidate = NoCandidate
  /\ claudeOutput = ""
  /\ done = FALSE
  /\ err = "none"
  /\ runErr = "none"
  /\ sleepFor = 0
  /\ trace = <<>>
  /\ logged = <<>>
  /\ streak = <<>>
  /\ unfixed = {}
  /\ args \in [list : Lists, fixed : {{}}]
  /\ result = <<>>

TermStartup == Startup /\ pc' = "loop"

TermLoopHead == LoopHead

\* The candidate source prints the list as it is now.
TermSelect ==
  /\ RunIterationSelect
  /\ err' = "none"
  /\ candidate' = SelectCandidate(FilterByHash(SourceList, opts.HashFilter), ignoredList)

\* The agent returns or times out; no rate limit, no process error.
TermClaude == RunIterationClaude /\ pc' \in {"verify", "handleTimeout"}

TermVerify == RunIterationVerify

\* The change the agent made removes the candidate from the source.
AgentFixes ==
  /\ pc = "recheck"
  /\ candidate \notin args.fixed
  /\ args' = [args EXCEPT !.fixed = @ \cup {candidate}]
  /\ UNCHANGED <<runnerVars, pc, result>>

\* The re-run of the candidate source prints the list as it is now.
TermRecheck ==
  /\ RunIterationRecheck
  /\ pc' \in {"handleSuccess", "handleFailure"}
  /\ (pc' = "handleSuccess") <=> (candidate \in args.fixed)

TermHandleSuccess == HandleSuccess /\ err' = "none"

TermHandleFailure == HandleFailure /\ err' = "none"

TermHandleTimeout == HandleTimeout /\ err' = "none"

TermRunResult == RunResult

NextTerm ==
  \/ TermStartup \/ TermLoopHead \/ TermSelect \/ TermClaude \/ TermVerify
  \/ AgentFixes \/ TermRecheck
  \/ TermHandleSuccess \/ TermHandleFailure \/ TermHandleTimeout
  \/ TermRunResult

\* Run is sequential code: each of its steps is taken once it can be. The
\* agent owes no fix.
SpecTerm ==
  /\ InitTerm /\ [][NextTerm]_vars
  /\ WF_vars(TermStartup) /\ WF_vars(TermLoopHead) /\ WF_vars(TermSelect)
  /\ WF_vars(TermClaude) /\ WF_vars(TermVerify) /\ WF_vars(TermRecheck)
  /\ WF_vars(TermHandleSuccess) /\ WF_vars(TermHandleFailure)
  /\ WF_vars(TermHandleTimeout) /\ WF_vars(TermRunResult)

\* ------------------------------------------------------------------ claims
InIteration == pc \in {"claude", "verify", "recheck", "handleSuccess",
                       "handleFailure", "handleTimeout", "iterationReturned"}

\* The agent call of the iteration returned e and its output held no rate-limit
\* phrase.
AgentReturned(e) ==
  /\ InIteration
  /\ claudeOutput = ""
  /\ \E i \in 1..Len(trace) : trace[i] = Cmd("claude", e)

Min(a, b) == IF a <= b THEN a ELSE b

\* C1: when the agent returned without error, timeout or rate limit, the first
\* command after it is the configured verify command, and every re-run of the
\* candidate source in the iteration comes directly after that verification
\* passed (directly after the agent when no verify command is configured).
C1_VerifyBeforeRecheck ==
  AgentReturned("nil") =>
    \A i \in 1..Len(trace) :
      /\ (trace[i].cmd = "claude" /\ i < Len(trace) /\ config.VerifyCommand # "")
           => trace[i + 1].cmd = "verify"
      /\ (trace[i].cmd = "source" /\ i > 1) =>
           IF config.VerifyCommand # ""
             THEN i > 2 /\ trace[i - 1] = Cmd("verify", "ok") /\ trace[i - 2].cmd = "claude"
             ELSE trace[i - 1].cmd = "claude"

C1_Witness ==
  /\ pc = "handleSuccess"
  /\ config.VerifyCommand # ""
  /\ trace = <<Cmd("source", "ok"), Cmd("claude", "nil"), Cmd("verify", "ok"),
               Cmd("source", "ok")>>

\* C2: when the verification that follows the agent fails, the iteration is in
\* the failure handler or has returned from it, and the candidate source is
\* not run again in that iteration.
C2_VerifyFailedNoRecheck ==
  \A i \in 1..(Len(trace) - 1) :
    (AgentReturned("nil") /\ trace[i].cmd = "claude" /\ trace[i + 1] = Cmd("verify", "fail"))
      => /\ pc \in {"handleFailure", "iterationReturned"}
         /\ \A j \in (i + 1)..Len(trace) : trace[j].cmd # "source"

C2_Witness ==
  /\ pc = "iterationReturned"
  /\ err = "none"
  /\ Len(trace) > 3
  /\ trace[2] = Cmd("claude", "nil")
  /\ trace[3] = Cmd("verify", "fail")
  /\ logged # <<>>

\* C3: an iteration that records an outcome and returns without error leaves
\* the ignore set unchanged when the outcome is Fixed, and otherwise adds
\* exactly the selected candidate's key, which was not in the set before.
C3_IgnoredIffNotFixed ==
  [][(pc # "iterationReturned" /\ pc' = "iterationReturned" /\ err' = "none" /\ logged' # <<>>)
       => IF logged'[1] = OutcomeFixed
            THEN ignoredList' = ignoredList
            ELSE /\ logged'[1] \in {OutcomeNotFixed, OutcomeBuildFailed,
                                     OutcomeBestEffort, OutcomeFixedReverted}
                 /\ candidate \notin ignoredList
                 /\ ignoredList' = ignoredList \cup {candidate}]_vars

C3_Witness ==
  /\ pc = "iterationReturned"
  /\ err = "none"
  /\ logged = <<OutcomeBestEffort>>
  /\ candidate \in ignoredList

\* C4: a key whose iteration ended with NotFixed, BuildFailed, BestEffort or
\* FixedButReverted is in the ignore set from then on and is never the
\* selected candidate of a later iteration.
C4_UnfixedNeverReselected ==
  /\ unfixed \subseteq ignoredList
  /\ pc \in {"claude", "verify", "recheck", "handleSuccess", "handleFailure", "handleTimeout"}
       => /\ candidate \notin unfixed
          /\ candidate \notin ignoredList

C4_Witness ==
  /\ pc = "claude"
  /\ unfixed = {KeyNames[1]}
  /\ candidate = KeyNames[2]
  /\ opts.HashFilter = HashFilterNone

\* C5: a fatal error returned by an iteration makes Run return it at once, with
\* no sleep and no new iteration, and nothing happens after Run has returned.
C5_FatalStopsRun ==
  [][/\ pc # "returned"
     /\ (pc = "iterationReturned" /\ err = "fatal" /\ pc' # pc)
          => /\ pc' = "returned"
             /\ runErr' = "fatal"
             /\ sleepFor' = 0
             /\ iteration' = iteration
             /\ backoffLevel' = backoffLevel]_vars

C5_Witness ==
  /\ pc = "returned"
  /\ runErr = "fatal"
  /\ iteration > 1

\* C6: outside a sleep the backoff level is the number of consecutive generic
\* errors since the last rate limit or the last iteration that completed
\* without error and let the loop go on (0 when there is none); during the
\* sleep after a generic error it is one less, and the k-th consecutive generic
\* error sleeps 5, 10, 20, 40, 60, 60, ... minutes.
C6_BackoffStreak ==
  /\ pc # "sleep" => backoffLevel = Len(streak)
  /\ (pc = "sleep" /\ err = "generic")
       => /\ backoffLevel = Len(streak) - 1
          /\ sleepFor = streak[Len(streak)]
  /\ \A k \in 1..Len(streak) :
       streak[k] = IF k <= 4 THEN baseBackoff * 2 ^ (k - 1) ELSE maxBackoff

C6_Witness ==
  /\ pc = "sleep"
  /\ streak = <<5, 10, 20, 40, 60, 60>>

\* C7: calculateBackoff(level) is min(5 minutes * 2^level, 1 hour): 5, 10, 20,
\* 40 minutes for levels 0..3 and 1 hour from level 4 on, never above 1 hour and
\* non-decreasing in the level.
C7_BackoffValue ==
  pc = "ret" =>
    /\ \A n \in 1..2 :
         /\ result[n] = Min(baseBackoff * 2 ^ args[n], maxBackoff)
         /\ result[n] <= maxBackoff
         /\ args[n] >= 4 => result[n] = maxBackoff
    /\ args[1] <= args[2] => result[1] <= result[2]
    /\ args = <<0, 1>> => result = <<5, 10>>
    /\ args = <<2, 3>> => result = <<20, 40>>

C7_Witness ==
  /\ pc = "ret"
  /\ args = <<3, 10>>
  /\ result = <<40, 60>>

\* C8: an agent output that holds the rate-limit phrase makes the iteration
\* return a rate-limit error with no further command; Run then sleeps the fixed
\* cooldown, sets the level to 0 and goes back to the head of the loop.
C8_RateLimit ==
  [][/\ (pc = "claude" /\ claudeOutput' = rateLimitPhrase)
          => /\ pc' = "iterationReturned"
             /\ err' = "ratelimit"
             /\ Len(trace') = Len(trace) + 1
     /\ (pc = "iterationReturned" /\ err = "ratelimit" /\ pc' # pc)
          => /\ pc' = "sleep"
             /\ sleepFor' = rateLimitBackoff
             /\ runErr' = "none"
     /\ (pc = "sleep" /\ err = "ratelimit" /\ pc' # pc)
          => /\ pc' = "loop"
             /\ backoffLevel' = 0
             /\ runErr' = "none"]_vars

C8_Witness ==
  /\ pc = "sleep"
  /\ err = "ratelimit"
  /\ sleepFor = 60
  /\ backoffLevel = 2

\* C9 as stated: every iteration whose agent call timed out records an outcome
\* and adds the candidate's key to the ignore set.
C9_TimeoutAlwaysResolved ==
  (pc = "iterationReturned" /\ \E i \in 1..Len(trace) : trace[i] = Cmd("claude", "timeout"))
    => /\ Len(logged) = 1
       /\ candidate \in ignoredList

\* C9 amended: a timeout whose output holds no rate-limit phrase goes to the
\* timeout handler and nowhere else; when the handler returns without error,
\* one outcome among NotFixed, BuildFailed and BestEffort is recorded and the
\* key is in the ignore set, so that it is not selected again.
C9_TimeoutResolvedUnlessError ==
  AgentReturned("timeout") =>
    /\ pc \in {"handleTimeout", "iterationReturned"}
    /\ \A i \in 1..Len(trace) : trace[i].cmd = "source" => i = 1
    /\ (pc = "iterationReturned" /\ err = "none")
         => /\ ~done
            /\ Len(logged) = 1
            /\ logged[1] \in {OutcomeNotFixed, OutcomeBuildFailed, OutcomeBestEffort}
            /\ candidate \in ignoredList
            /\ candidate \in unfixed

C9_Witness ==
  /\ AgentReturned("timeout")
  /\ pc = "iterationReturned"
  /\ err = "none"
  /\ logged = <<OutcomeBuildFailed>>

\* C10: SelectCandidate returns the first candidate of the list whose key is
\* not in the ignore set, and none exactly when every key of the list is in it.
C10_SelectFirstNotIgnored ==
  pc = "ret" =>
    LET l == args[1]
        ig == args[2]
        r == result[1]
    IN /\ (r = NoCandidate) <=> (\A i \in 1..Len(l) : l[i] \in ig)
       /\ r # NoCandidate =>
            \E i \in 1..Len(l) :
              /\ l[i] = r
              /\ r \notin ig
              /\ \A j \in 1..(i - 1) : l[j] \in ig

C10_Witness ==
  /\ pc = "ret"
  /\ args = <<<<KeyNames[1], KeyNames[2], KeyNames[1]>>, {KeyNames[1]}>>
  /\ result = <<KeyNames[2]>>

\* The number of positions of list l that hold key k.
Count(l, k) == Cardinality({i \in 1..Len(l) : l[i] = k})

IsEvenKey(k) == md5Bit0[k] = 0
IsOddKey(k) == md5Bit0[k] = 1

\* C11: the Evens and the Odds filter of a list share no key, every key occurs
\* in the two results together as often as in the list, each result is the list
\* with the other parity's elements dropped (order kept), and the None filter
\* returns the list unchanged.
C11_FilterPartition ==
  pc = "ret" =>
    LET S == args[1]
        E == result[HashFilterEvens]
        O == result[HashFilterOdds]
    IN /\ \A i \in 1..Len(E), j \in 1..Len(O) : E[i] # O[j]
       /\ \A k \in AllKeys : Count(E, k) + Count(O, k) = Count(S, k)
       /\ Len(E) + Len(O) = Len(S)
       /\ E = SelectSeq(S, IsEvenKey)
       /\ O = SelectSeq(S, IsOddKey)
       /\ result[HashFilterNone] = S

C11_Witness ==
  /\ pc = "ret"
  /\ args = <<<<"a", "e", "b">>>>
  /\ result[HashFilterEvens] = <<"e">>
  /\ result[HashFilterOdds] = <<"a", "b">>

\* C12: of two instances that see the same candidate-source output, one with
\* the Evens and one with the Odds filter, no key is ever selected by both, and
\* every key passes exactly one of the two filters.
C12_DisjointPartitions ==
  pc = "pair" =>
    /\ result[HashFilterEvens].selected \cap result[HashFilterOdds].selected = {}
    /\ \A k \in AllKeys :
         (FilterByHash(<<k>>, HashFilterEvens) = <<k>>)
           # (FilterByHash(<<k>>, HashFilterOdds) = <<k>>)

C12_Witness ==
  /\ pc = "pair"
  /\ args[1] = <<"a", "e", "b">>
  /\ result[HashFilterEvens].selected = {"e"}
  /\ result[HashFilterOdds].selected = {"a", "b"}

\* C13: the selected candidate passed the hash filter, and the filtered
\* presence check after the agent reports it fixed exactly when its key does
\* not occur in the unfiltered output of the re-run.
C13_RecheckSameFilter ==
  pc = "ret" =>
    /\ containsKey(FilterByHash(args[1], args[3]), result[1])
    /\ result[2] <=> (\A i \in 1..Len(args[2]) : args[2][i] # result[1])

C13_Witness ==
  /\ pc = "ret"
  /\ args[3] = HashFilterOdds
  /\ args[1] = <<"e", "a">>
  /\ args[2] = <<"a", "e">>
  /\ result = <<"a", FALSE>>

\* C14: no step of a run removes a key from the ignore set, and a step that
\* changes the set is a handler adding the key of the selected candidate.
C14_IgnoreSetGrowsOnly ==
  [][/\ ignoredList \subseteq ignoredList'
     /\ ignoredList' # ignoredList
          => /\ pc \in {"handleSuccess", "handleFailure", "handleTimeout"}
             /\ candidate # NoCandidate
             /\ ignoredList' = ignoredList \cup {candidate}]_vars

C14_Witness ==
  /\ pc = "iterationReturned"
  /\ ignoredList = {KeyNames[1], KeyNames[2]}
  /\ unfixed = {KeyNames[2]}
  /\ candidate = KeyNames[2]

\* The keys the list held when this run loaded it, and the records this run
\* appended for key k.
LoadedEntries == NewIgnoredList(SubSeq(result.file, 1, result.mark))
RecordsThisRun(k) ==
  {i \in (result.mark + 1)..Len(result.file) : result.file[i] = Fprintln(k)}

\* C15: an Add of a key the set contains returns nil, writes nothing and leaves
\* the set as it was; so in one run the file gains exactly one record for each
\* key added in that run, however often Add is called for it, and none for a
\* key the list held when it was loaded.
C15_AddIdempotent ==
  /\ [](\A k \in FileKeys :
          /\ (k \in result.entries \ LoadedEntries) => Cardinality(RecordsThisRun(k)) = 1
          /\ k \in LoadedEntries => RecordsThisRun(k) = {}
          /\ Cardinality(RecordsThisRun(k)) <= 1)
  /\ [][(pc = "idle" /\ result'.calls = result.calls + 1
           /\ Contains(result.entries, result'.key))
          => /\ result'.file = result.file
             /\ result'.entries = result.entries
             /\ result'.err = "nil"
             /\ pc' = "idle"]_vars

C15_Witness ==
  /\ pc = "idle"
  /\ result.calls = 3
  /\ result.key = <<"a">>
  /\ result.err = "nil"
  /\ result.entries = {<<"a">>}
  /\ result.file = <<Fprintln(<<"a">>)>>
  /\ result.mark = 0

\* C16: a key is in the in-memory set only once its record is in the file: an
\* Add that failed to open or to write has returned an error and left the key
\* out of the set, and every key the set gained in this run has a record that
\* this run appended.
C16_WriteBeforeUpdate ==
  /\ (pc = "idle" /\ result.err = "error") => ~Contains(result.entries, result.key)
  /\ \A k \in result.entries \ LoadedEntries : RecordsThisRun(k) # {}
  /\ pc = "update" => /\ RecordsThisRun(result.key) # {}
                      /\ ~Contains(result.entries, result.key)

C16_Witness ==
  /\ pc = "idle"
  /\ result.err = "error"
  /\ result.key = <<"a">>
  /\ result.entries = {<<"a", SP>>}
  /\ result.file = <<Fprintln(<<"a", SP>>)>>
  /\ result.mark = 0

\* C17: every key for which an Add returned nil, in this run or an earlier one,
\* is contained in the list, also after the list was loaded again from the
\* file.
C17_RoundTrip ==
  pc = "idle" => \A k \in args.succeeded : Contains(result.entries, k)

\* A failure handler (candidate still present, verification failed, timeout)
\* runs and returns, and the commands it ran.
FailureHandled ==
  /\ pc \in {"handleFailure", "handleTimeout"}
  /\ pc' = "iterationReturned"
HandlerCmds == SubSeq(trace', Len(trace) + 1, Len(trace'))

Has(cmds, c) == \E i \in 1..Len(cmds) : cmds[i] = c
HasCmd(cmds, name) == \E i \in 1..Len(cmds) : cmds[i].cmd = name

\* C18: in a failure case with best effort enabled the handler first finds out
\* whether the build passes and, when it does, whether there are uncommitted
\* changes; when there are, the success command is run, no reset command is
\* run in the iteration, no outcome other than BestEffort is recorded, and
\* BestEffort is recorded exactly when the success command succeeded.
C18_BestEffortCommit ==
  [][(FailureHandled /\ task.AcceptBestEffort)
       => LET buildPasses == config.VerifyCommand = ""
                               \/ HandlerCmds[1] = Cmd("verify", "ok")
              asked == IF config.VerifyCommand = "" THEN 1 ELSE 2
          IN /\ config.VerifyCommand # "" => HandlerCmds[1].cmd = "verify"
             /\ buildPasses => HandlerCmds[asked].cmd = "status"
             /\ Has(HandlerCmds, Cmd("status", "dirty"))
                  => /\ buildPasses
                     /\ HasCmd(HandlerCmds, "success")
                     /\ ~HasCmd(trace', "reset")
                     /\ logged' \in {<<>>, <<OutcomeBestEffort>>}
                     /\ (logged' = <<OutcomeBestEffort>>)
                          <=> Has(HandlerCmds, Cmd("success", "ok"))
                     /\ logged' = <<>> => err' \in {"generic", "fatal"}]_vars

C18_Witness ==
  /\ pc = "iterationReturned"
  /\ task.AcceptBestEffort
  /\ logged = <<OutcomeBestEffort>>
  /\ trace = <<Cmd("source", "ok"), Cmd("template", "ok"),
               Cmd("claude", "timeout"), Cmd("verify", "ok"),
               Cmd("status", "dirty"), Cmd("success", "ok")>>

\* C19 as stated: in a failure case with best effort enabled, when the build
\* fails or there is nothing to commit, the configured reset command is run.
C19_ResetWhenNothingToCommit ==
  [][(/\ FailureHandled
      /\ task.AcceptBestEffort
      /\ config.ResetCommand # ""
      /\ \/ Has(HandlerCmds, Cmd("status", "clean"))
         \/ (HandlerCmds # <<>> /\ HandlerCmds[1] = Cmd("verify", "fail")))
       => HasCmd(HandlerCmds, "reset")]_vars

\* C19 amended: in a failure case with best effort enabled, when the build
\* fails the reset command is run and then the build is verified again, and
\* BuildFailed is recorded exactly when both succeed (the error is fatal
\* otherwise); when the build passes and there is nothing to commit, NotFixed
\* is recorded and neither the reset nor the success command is run.
C19_BuildFailedOrNothingToCommit ==
  [][(FailureHandled /\ task.AcceptBestEffort)
       => /\ (HandlerCmds # <<>> /\ HandlerCmds[1] = Cmd("verify", "fail"))
               => LET rest == Tail(HandlerCmds) IN
                  /\ config.ResetCommand # "" => (rest # <<>> /\ rest[1].cmd = "reset")
                  /\ (config.ResetCommand = "" \/ rest[1] = Cmd("reset", "ok"))
                       => rest[Len(rest)].cmd = "verify"
                  /\ ~HasCmd(HandlerCmds, "success")
                  /\ (logged' = <<OutcomeBuildFailed>>)
                       <=> /\ config.ResetCommand # "" => Has(rest, Cmd("reset", "ok"))
                           /\ rest[Len(rest)] = Cmd("verify", "ok")
                  /\ logged' \in {<<>>, <<OutcomeBuildFailed>>}
                  /\ logged' = <<>> => err' = "fatal"
          /\ Has(HandlerCmds, Cmd("status", "clean"))
               => /\ logged' = <<OutcomeNotFixed>>
                  /\ ~HasCmd(HandlerCmds, "reset")
                  /\ ~HasCmd(HandlerCmds, "success")]_vars

C19_Witness ==
  /\ pc = "iterationReturned"
  /\ task.AcceptBestEffort
  /\ logged = <<OutcomeBuildFailed>>
  /\ err = "none"
  /\ trace = <<Cmd("source", "ok"), Cmd("template", "ok"),
               Cmd("claude", "timeout"), Cmd("verify", "fail"),
               Cmd("reset", "ok"), Cmd("verify", "ok")>>

\* C20: in a failure case with best effort disabled the handler runs the reset
\* command, then verifies the build when the reset succeeded, never runs the
\* success command, and records NotFixed exactly when both succeeded (the
\* error is fatal otherwise).
C20_StandardReset ==
  [][(FailureHandled /\ ~task.AcceptBestEffort)
       => LET resetOk == config.ResetCommand = "" \/ Has(HandlerCmds, Cmd("reset", "ok"))
              verifyOk == config.VerifyCommand = ""
                            \/ HandlerCmds[Len(HandlerCmds)] = Cmd("verify", "ok")
          IN /\ config.ResetCommand # "" => HandlerCmds[1].cmd = "reset"
             /\ (resetOk /\ config.VerifyCommand # "")
                  => /\ HandlerCmds[Len(HandlerCmds)].cmd = "verify"
                     /\ Len(HandlerCmds) = IF config.ResetCommand # "" THEN 2 ELSE 1
             /\ ~resetOk => HandlerCmds = <<Cmd("reset", "fail")>>
             /\ ~HasCmd(HandlerCmds, "success")
             /\ ~HasCmd(HandlerCmds, "status")
             /\ (logged' = <<OutcomeNotFixed>>) <=> (resetOk /\ verifyOk)
             /\ logged' \in {<<>>, <<OutcomeNotFixed>>}
             /\ logged' = <<>> => err' = "fatal"]_vars

C20_Witness ==
  /\ pc = "iterationReturned"
  /\ ~task.AcceptBestEffort
  /\ logged = <<OutcomeNotFixed>>
  /\ err = "none"
  /\ trace = <<Cmd("source", "ok"), Cmd("claude", "nil"), Cmd("verify", "fail"),
               Cmd("reset", "ok"), Cmd("verify", "ok")>>

\* The success handler runs and returns.
SuccessHandled ==
  /\ pc = "handleSuccess"
  /\ pc' = "iterationReturned"

\* C21 as stated: on the success path the changes are verified again by the
\* handler, which recovers and records FixedButReverted when they fail.
C21_SuccessPathReverifies ==
  [][(SuccessHandled /\ config.VerifyCommand # "")
       => /\ HasCmd(HandlerCmds, "verify")
          /\ HandlerCmds[1] = Cmd("verify", "fail")
               => (logged' = <<OutcomeFixedReverted>> \/ err' = "fatal")]_vars

\* C21 amended: the success path is entered with the build already verified
\* and the handler neither verifies nor resets: it asks for uncommitted
\* changes, commits them and records Fixed, or returns an error with nothing
\* recorded; no execution records FixedButReverted.  A build that fails after
\* the agent is recovered by the failure handler, and a reset or
\* re-verification that fails there is a fatal error.
C21_NoReverifyOnSuccessPath ==
  /\ [](\A i \in 1..Len(logged) : logged[i] # OutcomeFixedReverted)
  /\ [][/\ SuccessHandled
             => /\ trace[Len(trace)] = Cmd("source", "ok")
                /\ config.VerifyCommand # "" => trace[Len(trace) - 1] = Cmd("verify", "ok")
                /\ ~HasCmd(HandlerCmds, "verify")
                /\ ~HasCmd(HandlerCmds, "reset")
                /\ HandlerCmds[1].cmd = "status"
                /\ logged' \in {<<>>, <<OutcomeFixed>>}
                /\ logged' = <<>> => err' \in {"generic", "fatal"}
        /\ (FailureHandled /\ HasCmd(HandlerCmds, "reset")
              /\ HandlerCmds[Len(HandlerCmds)].res = "fail")
             => err' = "fatal" /\ logged' = <<>>]_vars

C21_Witness ==
  /\ pc = "iterationReturned"
  /\ logged = <<OutcomeFixed>>
  /\ trace = <<Cmd("source", "ok"), Cmd("claude", "nil"), Cmd("verify", "ok"),
               Cmd("source", "ok"), Cmd("status", "dirty"), Cmd("success", "ok")>>

\* The positions inside runIteration, before it returns.
IterationRunning == pc \in {"select", "claude", "verify", "recheck",
                            "handleSuccess", "handleFailure", "handleTimeout"}

\* C22: the graceful-stop signal changes the stop flag and nothing else; once
\* the flag is set no iteration is started and the loop head returns; an
\* iteration only starts at the loop head with the flag clear and the limit not
\* reached; an iteration in progress always goes on to its own return, a sleep
\* to the loop head, and Run returns after an iteration only on a fatal error
\* or when the iteration reported done.
C22_StopOnlyAtLoopHead ==
  [][/\ stopRequested' # stopRequested
          => /\ stopRequested'
             /\ <<cfgVars, pc, iteration, backoffLevel, ignoredList, candidate, done,
                  err, runErr, sleepFor, trace, logged, claudeOutput>>'
                  = <<cfgVars, pc, iteration, backoffLevel, ignoredList, candidate,
                      done, err, runErr, sleepFor, trace, logged, claudeOutput>>
     /\ stopRequested => iteration' = iteration
     /\ (stopRequested /\ pc = "loop" /\ pc' # pc)
          => pc' = "returned" /\ runErr' = "nil"
     /\ iteration' # iteration
          => /\ pc = "loop"
             /\ pc' = "select"
             /\ iteration' = iteration + 1
             /\ ~(opts.Limit > 0 /\ iteration >= opts.Limit)
     /\ IterationRunning => (IterationRunning' \/ pc' = "iterationReturned")
     /\ pc = "sleep" => pc' \in {"sleep", "loop"}
     /\ (pc = "iterationReturned" /\ pc' = "returned")
          => (err = "fatal" \/ (err = "none" /\ done))]_vars

C22_Witness ==
  /\ stopRequested
  /\ pc = "iterationReturned"
  /\ err = "none"
  /\ logged = <<OutcomeNotFixed>>
  /\ candidate \in ignoredList
  /\ iteration = 2

\* C24: with a limit N > 0 the iteration counter never exceeds N, every
\* iteration started counts one whatever its result, and the loop head does
\* not start iteration N + 1; with N = 0 the loop head never returns because
\* of the limit (only on the stop flag or the time limit).
C24_IterationLimit ==
  /\ [](opts.Limit > 0 => iteration <= opts.Limit)
  /\ [][/\ pc = "loop" /\ pc' = "select" => iteration' = iteration + 1
        /\ pc # "loop" => iteration' = iteration
        /\ (pc = "loop" /\ pc' = "returned" /\ opts.Limit = 0)
             => (stopRequested \/ opts.TimeLimit > 0)
        /\ (pc = "loop" /\ opts.Limit > 0 /\ iteration = opts.Limit /\ pc' # pc)
             => pc' = "returned"]_vars

\* Both iterations of a run limited to two ended in a recoverable error.
C24_Witness ==
  /\ opts.Limit = 2
  /\ iteration = 2
  /\ pc = "returned"
  /\ backoffLevel = 2
  /\ ~stopRequested

\* C23: a stop-now interrupt that was delivered to the program is never left
\* unhandled: once the signal goroutine is through, the program has exited.
C23_InterruptNeverIgnored ==
  (result.interrupted /\ result.handler = "returned") => pc = "exited"

\* The lines of stdout the stream reader has taken from the pipe.
Consumed ==
  SubSeq(result.written, 1, Len(result.written) - Len(result.pipe))

\* A non-empty text delta among the lines after the last message_stop.
RECURSIVE ContentSinceStop(_)
ContentSinceStop(lines) ==
  IF lines = <<>> THEN FALSE
  ELSE LET last == lines[Len(lines)] IN
       IF last.type = "message_stop" THEN FALSE
       ELSE IF last.type = "content_block_delta" /\ last.text # "" THEN TRUE
       ELSE ContentSinceStop(SubSeq(lines, 1, Len(lines) - 1))

\* C25: when the stream reader takes a message_stop line it sends one newline
\* to the callback, the log and the accumulated output if a non-empty text
\* delta came since the previous message_stop, and nothing otherwise, and the
\* has-content flag is clear afterwards; 'Hello ', 'World', message_stop give
\* exactly "Hello World\n", a lone message_stop gives nothing.
C25_MessageStopNewline ==
  /\ [][(/\ result.rpc = "scan"
         /\ result.pipe # <<>>
         /\ result'.pipe = Tail(result.pipe)
         /\ Head(result.pipe) = MessageStop)
          => /\ ContentSinceStop(Consumed)
                  => /\ result'.streamed = Append(result.streamed, "\n")
                     /\ result'.log = Append(result.log, "\n")
                     /\ result'.fullOutput = Append(result.fullOutput, "\n")
             /\ ~ContentSinceStop(Consumed)
                  => /\ result'.streamed = result.streamed
                     /\ result'.log = result.log
                     /\ result'.fullOutput = result.fullOutput
             /\ ~result'.messageHasContent]_vars
  /\ []((/\ result.written = <<TextDelta("Hello "), TextDelta("World"), MessageStop>>
         /\ result.pipe = <<>>
         /\ result.rpc = "scan")
          => /\ String(result.fullOutput) = "Hello World\n"
             /\ String(result.log) = "Hello World\n"
             /\ result.streamed = <<"Hello ", "World", "\n">>)
  /\ []((/\ result.written = <<MessageStop>>
         /\ result.pipe = <<>>
         /\ result.rpc = "scan")
          => /\ result.fullOutput = <<>>
             /\ result.log = <<>>
             /\ result.streamed = <<>>)

C25_Witness ==
  /\ result.written = <<TextDelta("Hello "), MessageStop, MessageStop>>
  /\ result.rpc = "done"
  /\ String(result.fullOutput) = "Hello \n"
  /\ result.streamed = <<"Hello ", "\n", "\n">>

\* C26: with a timeout, every call of RunClaudeCommand comes to its end,
\* whatever the agent process does.
C26_AlwaysReturns ==
  (args.timeout > 0) => <>(pc \in {"returned", "exited"})

\* a is b with some elements left out.
RECURSIVE IsSubseq(_, _)
IsSubseq(a, b) ==
  IF a = <<>> THEN TRUE
  ELSE IF b = <<>> THEN FALSE
  ELSE IF Head(a) = Head(b) THEN IsSubseq(Tail(a), Tail(b))
  ELSE IsSubseq(a, Tail(b))

\* The chunks the callback received for text deltas and message ends (the
\* stream reader adds one closing newline when it is done).
TextChunks ==
  IF result.rpc = "done"
    THEN SubSeq(result.streamed, 1, Len(result.streamed) - 1)
    ELSE result.streamed

\* C27: the timeout branch signals the process group; the call returns with a
\* timeout error only from that branch, only after the stream reader has
\* delivered its result, and with the reader's accumulated text; every text
\* chunk the callback received is in the returned text, in order, so the text
\* is not empty when a chunk was streamed.
C27_TimeoutReturnsReaderText ==
  /\ []((pc = "returned" /\ err = "timeout")
          => /\ result.rpc = "done"
             /\ result.termSent
             /\ claudeOutput = String(result.fullOutput)
             /\ IsSubseq(TextChunks, result.fullOutput)
             /\ (TextChunks # <<>> => claudeOutput # ""))
  /\ [][/\ (pc = "select" /\ pc' = "awaitTimeout")
             => (result'.termSent /\ ~result'.runningProcess)
        /\ (pc # "returned" /\ pc' = "returned" /\ err' = "timeout")
             => /\ pc = "awaitTimeout"
                /\ result.rpc = "done"
                /\ claudeOutput' = String(result.fullOutput)]_vars

C27_Witness ==
  /\ pc = "returned"
  /\ err = "timeout"
  /\ result.exit = "killed"
  /\ result.written = <<TextDelta("partial")>>
  /\ claudeOutput = "partial"
  /\ result.streamed = <<"partial", "\n">>

\* The stream reader run over a whole stream: the accumulated stdout text.
RECURSIVE readAll(_, _)
readAll(r, lines) ==
  IF lines = <<>> THEN r ELSE readAll(scanLine(r, Head(lines)), Tail(lines))

StdoutText(lines) == readAll(Started(<<>>, TRUE), lines).fullOutput

\* C28: the text RunClaudeCommand returns holds the text of every line the
\* agent wrote to stdout, followed by whatever stderr was captured.
C28_NoStdoutDropped ==
  pc = "returned"
    => \E e \in {<<>>, result.errWritten} :
         claudeOutput = String(StdoutText(result.written) \o e)

\* C29: the text RunClaudeCommand returns ends with everything the agent wrote
\* to stderr, after the text read from stdout, so the rate-limit phrase
\* written to stderr is in it.
C29_StderrAppended ==
  pc = "returned"
    => claudeOutput = String(StdoutText(Consumed) \o result.errWritten)

\* The same JSON value: the same string, or objects with the same members.
SameValue(t, u) ==
  {t[i] : i \in {j \in 1..Len(t) : ~IsSpace(t[j])}}
    = {u[i] : i \in {j \in 1..Len(u) : ~IsSpace(u[j])}}

\* C30: two elements that are the same JSON value, whatever the order of the
\* members and the white space in their texts, get the same key, hence the
\* same ignore-list membership and the same hash partition.
C30_KeysOrderInsensitive ==
  (pc = "parsed" /\ SameValue(args.a[1], args.b[1]))
    => /\ result.a[1].Key = result.b[1].Key
       /\ \A l \in SUBSET {result.a[1].Key, result.b[1].Key} :
            Contains(l, result.a[1].Key) = Contains(l, result.b[1].Key)

\* C31: an iteration in which the template file could not be read has
\* returned a fatal error with no agent call, no outcome and no command after
\* the candidate source; Run then returns that error without sleeping, without
\* changing the backoff level and without another iteration.
C31_MissingTemplateIsFatal ==
  /\ [](Has(trace, Cmd("template", "err"))
          => /\ pc = "iterationReturned"
             /\ err = "fatal"
             /\ ~done
             /\ trace = <<Cmd("source", "ok"), Cmd("template", "err")>>
             /\ logged = <<>>
             /\ claudeOutput = "")
  /\ [][(Has(trace, Cmd("template", "err")) /\ pc' # pc)
          => /\ pc' = "returned"
             /\ runErr' = "fatal"
             /\ <<iteration, backoffLevel, sleepFor, ignoredList>>'
                  = <<iteration, backoffLevel, sleepFor, ignoredList>>]_vars

C31_Witness ==
  /\ task.Template # ""
  /\ Has(trace, Cmd("template", "err"))
  /\ candidate # NoCandidate
  /\ iteration = 2
  /\ backoffLevel = 1

\* C32: called in the same state with the same results of verify, status,
\* success command, reset, re-verify and ignore-list write, handleFailure and
\* handleTimeout run the same commands in the same order, log the same
\* outcome, return the same error class and leave the same ignore set.
C32_SameFailurePolicy ==
  pc = "ret"
    => /\ result.failure.cmds = result.timeout.cmds
       /\ result.failure.logged = result.timeout.logged
       /\ result.failure.err = result.timeout.err
       /\ result.failure.entries = result.timeout.entries

C32_Witness ==
  /\ pc = "ret"
  /\ task.AcceptBestEffort
  /\ config.VerifyCommand # ""
  /\ args.verify = "ok"
  /\ args.status = "dirty"
  /\ result.timeout.logged = <<OutcomeBestEffort>>
  /\ result.failure.logged = <<OutcomeBestEffort>>
  /\ Has(result.timeout.cmds, Cmd("success", "ok"))
  /\ candidate \in result.timeout.entries
  /\ candidate \notin ignoredList

\* C33: an agent output with the rate-limit phrase makes the iteration return
\* a rate-limit error whatever the error of the call (none, timeout, process
\* error), with nothing run after the agent, nothing logged and the ignore set
\* as it was; after a rate-limit or generic error Run sleeps and goes to the
\* loop head with no candidate kept, and every iteration begins with the
\* candidate source and selects a candidate that is not ignored.
C33_RetryFromScratch ==
  /\ []((pc = "iterationReturned" /\ err = "ratelimit")
          => /\ trace[Len(trace)].cmd = "claude"
             /\ ~HasCmd(trace, "verify")
             /\ ~HasCmd(trace, "reset")
             /\ ~HasCmd(trace, "success")
             /\ ~HasCmd(trace, "status")
             /\ logged = <<>>
             /\ ~done)
  /\ [](pc = "sleep" => (candidate = NoCandidate /\ trace = <<>> /\ logged = <<>>))
  /\ [][/\ (pc = "claude" /\ claudeOutput' = rateLimitPhrase)
             => /\ pc' = "iterationReturned"
                /\ err' = "ratelimit"
                /\ ignoredList' = ignoredList
                /\ logged' = <<>>
        /\ (pc = "iterationReturned" /\ err \in {"ratelimit", "generic"} /\ pc' # pc)
             => /\ pc' = "sleep"
                /\ ignoredList' = ignoredList
                /\ iteration' = iteration
        /\ (pc = "sleep" /\ pc' # pc) => pc' = "loop"
        /\ (pc = "loop" /\ pc' = "select")
             => (candidate = NoCandidate /\ trace' = <<>>)
        /\ (pc = "select" /\ pc' # pc)
             => /\ trace'[1].cmd = "source"
                /\ candidate' # NoCandidate => candidate' \notin ignoredList]_vars

\* A rate-limited call that timed out as well, in the iteration after a
\* generic error.
C33_Witness ==
  /\ pc = "iterationReturned"
  /\ err = "ratelimit"
  /\ Has(trace, Cmd("claude", "timeout"))
  /\ iteration = 2
  /\ backoffLevel = 1
  /\ trace[1] = Cmd("source", "ok")

\* C34: the running-process reference is cleared only after the agent process
\* has stopped: while the process of the invocation runs, the reference is set.
C34_ReferenceUntilStopped ==
  result.proc = "running" => result.runningProcess

\* C35: when RunClaudeCommand returns, so that the runner goes on to the
\* commands of the sub-policies and to the next invocation, the agent process
\* has stopped.
C35_AgentStoppedOnReturn ==
  pc = "returned" => result.proc = "exited"

\* C36: a line of stdout that is not JSON is passed through: the reader writes
\* it, followed by a newline, to the log and to the accumulated output, does
\* not hand it to the streaming callback, leaves the has-content flag as it
\* was, and goes on reading the next line.
C36_RawLinePassThrough ==
  [][(/\ result.rpc = "scan"
      /\ ~result.closed
      /\ result.pipe # <<>>
      /\ Head(result.pipe).type = "")
       => LET t == Head(result.pipe).text IN
          /\ result'.log = Append(result.log, t \o "\n")
          /\ result'.fullOutput = Append(result.fullOutput, t \o "\n")
          /\ result'.streamed = result.streamed
          /\ result'.messageHasContent = result.messageHasContent
          /\ result'.rpc = "scan"
          /\ result'.pipe = Tail(result.pipe)]_vars

C36_Witness ==
  /\ result.rpc = "scan"
  /\ result.fullOutput = <<"Hello ", "x\n">>
  /\ result.log = <<"Hello ", "x\n">>
  /\ result.streamed = <<"Hello ">>
  /\ result.messageHasContent
  /\ result.pipe = <<MessageStop>>

\* C37: an iteration records at most one outcome, and an iteration in which
\* the agent was invoked and which returns without error has recorded exactly
\* one, which is Fixed, FixedButReverted, NotFixed, BestEffort or BuildFailed.
C37_OneOutcomePerIteration ==
  /\ Len(logged) <= 1
  /\ (pc = "iterationReturned" /\ err = "none" /\ HasCmd(trace, "claude"))
       => /\ Len(logged) = 1
          /\ logged[1] \in {OutcomeFixed, OutcomeFixedReverted, OutcomeNotFixed,
                            OutcomeBestEffort, OutcomeBuildFailed}

C37_Witness ==
  /\ pc = "iterationReturned"
  /\ err = "none"
  /\ iteration = 2
  /\ unfixed # {}
  /\ logged = <<OutcomeFixed>>
  /\ trace = <<Cmd("source", "ok"), Cmd("claude", "nil"), Cmd("verify", "ok"),
               Cmd("source", "ok"), Cmd("status", "clean")>>

\* C38: when the run goes on after an iteration in which the agent ran, the
\* changes of the agent have been committed by the success command or reverted
\* by a successful reset (or the status command found nothing to commit),
\* whatever way the iteration ended.
C38_CleanTreeForNextIteration ==
  [][(/\ pc = "iterationReturned"
      /\ HasCmd(trace, "claude")
      /\ config.ResetCommand # ""
      /\ pc' \in {"loop", "sleep"})
       => \/ Has(trace, Cmd("success", "ok"))
          \/ Has(trace, Cmd("reset", "ok"))
          \/ Has(trace, Cmd("status", "clean"))]_vars

\* C39: when the success command exits non-zero, in the success handler or on
\* the best-effort path of the failure and timeout handlers, the iteration
\* returns a fatal error with no outcome recorded, the ignore set as it was and
\* no reset command run, and the run then returns that error without starting
\* another iteration.
C39_FailedCommitIsFatal ==
  /\ [][(/\ pc \in {"handleSuccess", "handleFailure", "handleTimeout"}
          /\ pc' = "iterationReturned"
          /\ Has(trace', Cmd("success", "fail")))
           => /\ err' = "fatal"
              /\ logged' = <<>>
              /\ ignoredList' = ignoredList
              /\ ~HasCmd(trace', "reset")]_vars
  /\ [][(pc = "iterationReturned" /\ Has(trace, Cmd("success", "fail")))
           => /\ pc' \in {"iterationReturned", "returned"}
              /\ pc' = "returned" => runErr' = "fatal"
              /\ iteration' = iteration]_vars

C39_Witness ==
  /\ pc = "iterationReturned"
  /\ err = "fatal"
  /\ task.AcceptBestEffort
  /\ Has(trace, Cmd("claude", "timeout"))
  /\ Has(trace, Cmd("status", "dirty"))
  /\ Has(trace, Cmd("success", "fail"))
  /\ ignoredList # {}

C39_WitnessFixed ==
  /\ pc = "iterationReturned"
  /\ err = "fatal"
  /\ trace = <<Cmd("source", "ok"), Cmd("claude", "nil"), Cmd("verify", "ok"),
               Cmd("source", "ok"), Cmd("status", "dirty"), Cmd("success", "fail")>>

\* The keys the source prints now that are not in the ignore set.
NonIgnored ==
  {k \in Keys : /\ \E i \in 1..Len(args.list) : args.list[i] = k
                /\ k \notin args.fixed
                /\ k \notin ignoredList}

\* The run has no iteration limit, no time limit and is not a dry run.
Unlimited == opts.Limit = 0 /\ opts.TimeLimit = 0 /\ ~opts.DryRun

\* Run returned nil and the source holds no candidate left to select.
NoMoreCandidates ==
  /\ pc = "returned"
  /\ runErr = "nil"
  /\ SelectCandidate(FilterByHash(SourceList, opts.HashFilter), ignoredList) = NoCandidate

====
